---- MODULE Spec2Model ----
(***************************************************************************)
(* A model of the resolution engine of iocc: ContainerCore (the cache of  *)
(* shared objects, the table of constructions in progress, the forwarding *)
(* of a request to the parent container), the call-stack trace of         *)
(* CallContext, and providers that request their dependencies in order    *)
(* and propagate the first error.                                         *)
(*                                                                         *)
(* Each critical section of ContainerCore (one acquisition of the RwLock  *)
(* `managed`) is one atomic step; a provider runs between such steps with *)
(* no lock held, as in the source.                                        *)
(*                                                                         *)
(* Spec and FairSpec are the resolution engine, with the container tree   *)
(* that sub_container grows; LockSpec is the same engine with the         *)
(* acquisition of the RwLock as a step of its own; ConfigSpec is the      *)
(* set-up of a registry by the modules of a Configuration on one          *)
(* ConfigurerImpl; CollectSpec applies Collect::collect to bounded        *)
(* queries, key lists and injectors; ScopeSpec applies the methods of the *)
(* trait Scope to the scopes of WebScope and SingletonScope; MapSpec      *)
(* applies insert, insert_shared and get to one ProviderMap.  SharedSpec, *)
(* LocalSpec and CoreSpec are the earlier protocols: SharedContext, which *)
(* rejects the keys it cannot hold, LocalContext on top of it for the     *)
(* Owned keys, and the single-threaded CoreContainer.                     *)
(***************************************************************************)
EXTENDS Integers, Sequences, FiniteSets, TLC

(***************************************************************************)
(* Bounds of the model.                                                    *)
(***************************************************************************)
\* top-level requests that thread t1 makes one after the other
MaxRequests == 2
\* depth of the call stack of one thread (nested provider invocations)
MaxDepth == 4
\* modules of the Configuration that Container::init sets up
MaxModules == 2
\* registrations that the modules of one Configuration make in total
MaxCalls == 3
\* keys that the injector hands to one collection query
MaxKeys == 3
\* calls of sub_container on the containers of one tree
MaxSubs == 3
\* applications of sub_scope and super_scope in a row, from one scope
MaxWalk == 3
\* top-level requests made of a CoreContainer, one after the other
MaxCoreRequests == 3

(***************************************************************************)
(* WebScope (scope.rs): the discriminants order the scopes.                *)
(***************************************************************************)
Singleton == 3
Session == 2
Request == 1

NoScope == 0

Scopes == {Singleton, Session, Request}

SINGLETON == Singleton

outlive(a, b) == a >= b

within(a, b) == a <= b

\* every scope but the shortest has the shortest as its sub-scope
sub_scope_to_min(s) ==
    CASE s = Singleton -> Request
      [] s = Session -> Request
      [] OTHER -> NoScope

sub_scope(s) ==
    CASE s = Singleton -> Session
      [] s = Session -> Request
      [] OTHER -> NoScope

super_scope(s) ==
    CASE s = Session -> Singleton
      [] s = Request -> Session
      [] OTHER -> NoScope

MIN == Request

\* SingletonScope: a unit struct, the one scope there is
SingletonScope == Singleton

\* the implementations of the trait Scope
ScopeTypes == {"WebScope", "SingletonScope"}

ValuesOf(S) == IF S = "WebScope" THEN Scopes ELSE {SingletonScope}

SINGLETON_of(S) == IF S = "WebScope" THEN SINGLETON ELSE SingletonScope

MIN_of(S) == IF S = "WebScope" THEN MIN ELSE SingletonScope

super_scope_of(S, s) == IF S = "WebScope" THEN super_scope(s) ELSE NoScope

sub_scope_of(S, s) == IF S = "WebScope" THEN sub_scope(s) ELSE NoScope

(***************************************************************************)
(* Threads, containers, keys.                                              *)
(***************************************************************************)
Threads == {"t1", "t2", "t3"}

NoContainer == "none"

\* The container tree: a root and the containers derived by new_sub.
\* Every container holds a reference to one registry.
Registry == "providers"

\* a root of the session scope
new_root_session == [parent |-> NoContainer, scope |-> Session, providers |-> Registry]

new_root == [parent |-> NoContainer, scope |-> SINGLETON, providers |-> Registry]

\* the child is given the scope of its parent
new_sub_same_scope(cores, p) ==
    [parent |-> p, scope |-> cores[p].scope, providers |-> cores[p].providers]

new_sub(cores, p) ==
    [parent |-> p, scope |-> sub_scope(cores[p].scope),
     providers |-> cores[p].providers]

RootOnly == [c \in {"root"} |-> new_root]

WithSubs ==
    LET t0 == RootOnly
        t1 == [c \in {"root", "s1"} |-> IF c = "s1" THEN new_sub(t0, "root") ELSE t0[c]]
    IN  [c \in {"root", "s1", "s2"} |-> IF c = "s2" THEN new_sub(t1, "root") ELSE t1[c]]

\* the names of the containers that sub_container creates while threads work
Pool == <<"c1", "c2", "c3", "c4">>

Containers == {"root", "s1", "s2"} \cup {Pool[i] : i \in DOMAIN Pool}

Keys == {"A", "B", "C", "K", "N", "O", "P", "Q", "R", "S"}

(***************************************************************************)
(* ProviderEntry (registry/mod.rs) and the behaviour of a provider: the    *)
(* keys it requests from its injector, in order, and whether its own       *)
(* construction may fail (Ok(Err(e)) of the closure).                      *)
(***************************************************************************)
SharedEntry(scope, deps, fallible) ==
    [kind |-> "Shared", scope |-> scope, deps |-> deps, fallible |-> fallible]

OwnedEntry(deps, fallible) ==
    [kind |-> "Owned", scope |-> NoScope, deps |-> deps, fallible |-> fallible]

(***************************************************************************)
(* Scenarios: a frozen registry, a container tree, the requests that       *)
(* application threads make and how many each thread makes.                *)
(***************************************************************************)
Scenarios ==
    {"race", "fail", "cycAB", "cycAA", "acyclic", "reenter", "owned", "forward",
     "missing", "narrow", "transient", "grow", "siblings"}

ProvidersOf(s) ==
    CASE s = "race" ->
            \* one shared singleton without dependencies
            [k \in {"K"} |-> SharedEntry(Singleton, <<>>, FALSE)]
      [] s = "fail" ->
            \* a shared singleton whose construction may fail, and one that
            \* needs it
            [k \in {"K", "A"} |->
                IF k = "K" THEN SharedEntry(Singleton, <<>>, TRUE)
                           ELSE SharedEntry(Singleton, <<"K">>, FALSE)]
      [] s \in {"cycAB", "cycAA"} ->
            \* A needs B, B needs A
            [k \in {"A", "B"} |->
                IF k = "A" THEN SharedEntry(Singleton, <<"B">>, FALSE)
                           ELSE SharedEntry(Singleton, <<"A">>, FALSE)]
      [] s = "acyclic" ->
            \* TestObject::get_provider: C needs A and B, B needs A
            [k \in {"A", "B", "C"} |->
                CASE k = "A" -> SharedEntry(Singleton, <<>>, FALSE)
                  [] k = "B" -> SharedEntry(Singleton, <<"A">>, FALSE)
                  [] OTHER -> SharedEntry(Singleton, <<"A", "B">>, FALSE)]
      [] s = "reenter" ->
            \* SingletonRecursiveObject / TransientRecursiveObject, and a
            \* shared key that needs itself directly
            [k \in {"S", "O", "K"} |->
                CASE k = "S" -> SharedEntry(Singleton, <<"O">>, FALSE)
                  [] k = "O" -> OwnedEntry(<<"S">>, FALSE)
                  [] OTHER -> SharedEntry(Singleton, <<"K">>, FALSE)]
      [] s = "owned" ->
            \* O needs P needs O; Q needs itself; A needs B, no cycle
            [k \in {"O", "P", "Q", "A", "B"} |->
                CASE k = "O" -> OwnedEntry(<<"P">>, FALSE)
                  [] k = "P" -> OwnedEntry(<<"O">>, FALSE)
                  [] k = "Q" -> OwnedEntry(<<"Q">>, FALSE)
                  [] k = "A" -> OwnedEntry(<<"B", "B">>, FALSE)
                  [] OTHER -> OwnedEntry(<<>>, FALSE)]
      [] s = "missing" ->
            \* nothing is registered under Q; A, of a session, needs Q
            [k \in {"K", "A"} |->
                IF k = "K" THEN SharedEntry(Singleton, <<>>, FALSE)
                           ELSE SharedEntry(Session, <<"Q">>, FALSE)]
      [] s = "narrow" ->
            \* R and N are bound to the request scope; N needs the singleton K
            [k \in {"R", "N", "K"} |->
                CASE k = "R" -> SharedEntry(Request, <<>>, FALSE)
                  [] k = "N" -> SharedEntry(Request, <<"K">>, FALSE)
                  [] OTHER -> SharedEntry(Singleton, <<>>, FALSE)]
      [] s = "transient" ->
            \* O is owned and needs the singleton K
            [k \in {"O", "K"} |->
                IF k = "O" THEN OwnedEntry(<<"K">>, FALSE)
                           ELSE SharedEntry(Singleton, <<>>, FALSE)]
      [] s = "siblings" ->
            \* S lives in a session container and needs nothing
            [k \in {"S"} |-> SharedEntry(Session, <<>>, FALSE)]
      [] s = "grow" ->
            \* S lives in a session container; containers are added on the way
            [k \in {"S"} |-> SharedEntry(Session, <<>>, FALSE)]
      [] s = "local" ->
            \* the tests of LocalContext: O is owned and needs the owned B
            \* and the singleton K; Q is owned and needs itself; and besides
            \* the singleton A needs K
            [k \in {"O", "B", "Q", "K", "A"} |->
                CASE k = "O" -> OwnedEntry(<<"B", "K">>, FALSE)
                  [] k = "B" -> OwnedEntry(<<>>, FALSE)
                  [] k = "Q" -> OwnedEntry(<<"Q">>, FALSE)
                  [] k = "K" -> SharedEntry(Singleton, <<>>, FALSE)
                  [] OTHER -> SharedEntry(Singleton, <<"K">>, FALSE)]
      [] s = "core" ->
            \* K is shared and may fail, A is shared and needs K, O is owned
            \* and needs K, Q is owned and needs itself
            [k \in {"K", "A", "O", "Q"} |->
                CASE k = "K" -> SharedEntry(Singleton, <<>>, TRUE)
                  [] k = "A" -> SharedEntry(Singleton, <<"K">>, FALSE)
                  [] k = "O" -> OwnedEntry(<<"K">>, FALSE)
                  [] OTHER -> OwnedEntry(<<"Q">>, FALSE)]
      [] s = "short" ->
            \* shared_context_get_fails_when_object_lifetime_is_within_scope:
            \* S lives in a session, O is owned; and besides the singleton K
            \* needs S, and N lives in a request
            [k \in {"S", "O", "K", "N"} |->
                CASE k = "S" -> SharedEntry(Session, <<>>, FALSE)
                  [] k = "O" -> OwnedEntry(<<>>, FALSE)
                  [] k = "K" -> SharedEntry(Singleton, <<"S">>, FALSE)
                  [] OTHER -> SharedEntry(Request, <<>>, FALSE)]
      [] OTHER ->
            \* "forward": K lives in the root, S in a session container
            [k \in {"K", "S"} |->
                IF k = "K" THEN SharedEntry(Singleton, <<>>, FALSE)
                           ELSE SharedEntry(Session, <<"K">>, FALSE)]

TreeOf(s) ==
    IF s \in {"forward", "missing", "narrow", "transient", "siblings", "short"}
    THEN WithSubs
    ELSE RootOnly

\* <<container, key>> pairs that application threads request
RequestsOf(s) ==
    CASE s = "race" -> {<<"root", "K">>}
      [] s = "fail" -> {<<"root", "K">>, <<"root", "A">>}
      [] s = "cycAB" -> {<<"root", "A">>, <<"root", "B">>}
      [] s = "cycAA" -> {<<"root", "A">>}
      [] s = "acyclic" -> {<<"root", "B">>, <<"root", "C">>}
      [] s = "reenter" -> {<<"root", "S">>, <<"root", "K">>, <<"root", "O">>}
      [] s = "owned" -> {<<"root", "O">>, <<"root", "Q">>, <<"root", "A">>}
      [] s = "narrow" -> {<<"root", "R">>, <<"s1", "R">>, <<"root", "N">>}
      [] s = "transient" -> {<<"root", "O">>, <<"s1", "O">>, <<"s2", "O">>}
      [] s = "grow" -> {<<c, "S">> : c \in Containers}
      [] s = "siblings" -> {<<"s1", "S">>, <<"s2", "S">>}
      [] s = "missing" -> {<<"root", "Q">>, <<"s1", "Q">>, <<"s1", "A">>, <<"s2", "K">>}
      [] s = "local" -> {<<"root", "O">>, <<"root", "Q">>, <<"root", "A">>}
      [] s = "core" -> {<<"root", "K">>, <<"root", "A">>, <<"root", "O">>, <<"root", "Q">>,
                        <<"root", "N">>}
      [] s = "short" -> {<<"root", "S">>, <<"root", "O">>, <<"s1", "S">>, <<"s1", "K">>,
                         <<"s1", "N">>, <<"s1", "O">>}
      [] OTHER -> {<<"s1", "K">>, <<"s2", "K">>, <<"s1", "S">>}

\* number of top-level requests thread t makes: t1 makes several in sequence
\* (one where shared keys need themselves: there every removal of a record by
\* the other thread lets a call chain nest deeper), t2 one, and t3 takes part
\* in the race for a single key only
BudgetOf(s, t) ==
    CASE t = "t1" -> IF s \in {"cycAB", "cycAA", "reenter"} THEN 1 ELSE MaxRequests
      [] t = "t2" -> IF s = "grow" THEN 0 ELSE 1
      [] OTHER -> IF s = "race" THEN 1 ELSE 0

\* number of sub_container calls: the tree grows in one scenario
SubsOf(s) == IF s = "grow" THEN MaxSubs ELSE 0

(***************************************************************************)
(* Keys (key/mod.rs): a target type and a qualifier, which has a type of   *)
(* its own.                                                                *)
(***************************************************************************)
KeyImpl(target, qualifier_type, qualifier) ==
    [target |-> target, qualifier_type |-> qualifier_type, qualifier |-> qualifier]

\* key::of::<T>(): the qualifier is ()
key_of(target) == KeyImpl(target, "unit", "()")

\* key::named::<T>(name): the qualifier is a &'static str
key_named(target, name) == KeyImpl(target, "str", name)

(***************************************************************************)
(* ProviderMap (registry/provider_map.rs): one slot for every target type, *)
(* which holds a single entry until a second key of the type arrives.      *)
(***************************************************************************)
new_owned(key, provider) ==
    [kind |-> "Owned", key |-> key, provider |-> provider, scope |-> 0]

new_shared(key, provider, scope) ==
    [kind |-> "Shared", key |-> key, provider |-> provider, scope |-> scope]

SlotSingleton(entry) == [kind |-> "Singleton", entries |-> <<entry>>]

SlotMap(entries) == [kind |-> "Map", entries |-> entries]

\* ProviderSlot::insert
ProviderSlot_insert(slot, entry) ==
    IF slot.kind = "Singleton"
    THEN IF slot.entries[1].key = entry.key
         THEN SlotSingleton(entry)
         ELSE SlotMap([k \in {slot.entries[1].key, entry.key} |->
                          IF k = entry.key THEN entry ELSE slot.entries[1]])
    ELSE SlotMap([k \in DOMAIN slot.entries \cup {entry.key} |->
                     IF k = entry.key THEN entry ELSE slot.entries[k]])

\* what ProviderSlot::insert returns: the entry it replaced
ProviderSlot_insert_returned(slot, entry) ==
    IF slot.kind = "Singleton"
    THEN IF slot.entries[1].key = entry.key
         THEN [some |-> TRUE, value |-> slot.entries[1]]
         ELSE [some |-> FALSE]
    ELSE IF entry.key \in DOMAIN slot.entries
         THEN [some |-> TRUE, value |-> slot.entries[entry.key]]
         ELSE [some |-> FALSE]

\* a slot with a single entry answers for every key of its type
ProviderSlot_has_any_key(slot, key) ==
    IF slot.kind = "Singleton" THEN TRUE ELSE key \in DOMAIN slot.entries

\* ProviderSlot::get(key).is_some()
ProviderSlot_has(slot, key) ==
    IF slot.kind = "Singleton"
    THEN slot.entries[1].key = key
    ELSE key \in DOMAIN slot.entries

\* ProviderSlot::get(key), where it is Some
ProviderSlot_get(slot, key) ==
    IF slot.kind = "Singleton" THEN slot.entries[1] ELSE slot.entries[key]

\* ProviderMap::insert_impl
ProviderMap_insert_impl(map, entry) ==
    IF entry.key.target \in DOMAIN map
    THEN [map EXCEPT ![entry.key.target] = ProviderSlot_insert(@, entry)]
    ELSE [t \in DOMAIN map \cup {entry.key.target} |->
             IF t = entry.key.target THEN SlotSingleton(entry) ELSE map[t]]

\* ProviderMap::get(key).is_some()
ProviderMap_has(map, key) ==
    key.target \in DOMAIN map /\ ProviderSlot_has(map[key.target], key)

\* ProviderMap::get(key), where it is Some
ProviderMap_get(map, key) == ProviderSlot_get(map[key.target], key)

ProviderMap_new == << >>

\* what ProviderMap::insert_impl returns
ProviderMap_insert_returned(map, entry) ==
    IF entry.key.target \in DOMAIN map
    THEN ProviderSlot_insert_returned(map[entry.key.target], entry)
    ELSE [some |-> FALSE]

\* ProviderMap::get
ProviderMap_get_option(map, key) ==
    IF ProviderMap_has(map, key)
    THEN [some |-> TRUE, value |-> ProviderMap_get(map, key)]
    ELSE [some |-> FALSE]

(***************************************************************************)
(* RegistryError (registry/mod.rs) and ConfigurerImpl                      *)
(* (registry/configurer.rs).                                               *)
(***************************************************************************)
KeyDuplicated(key) == [kind |-> "KeyDuplicated", key |-> key, module |-> 0]

ModuleInner(module) == [kind |-> "ModuleInner", key |-> "", module |-> module]

ConfigurerImpl_new == [providers |-> ProviderMap_new, errors |-> << >>]

\* the entry is inserted whether or not the key is registered
dyn_register_overwrite(cfg, entry) ==
    [cfg EXCEPT !.providers = ProviderMap_insert_impl(@, entry)]

\* dyn_register and dyn_register_shared, which differ in the entry they build
dyn_register(cfg, entry) ==
    IF ~ProviderMap_has(cfg.providers, entry.key)
    THEN [cfg EXCEPT !.providers = ProviderMap_insert_impl(@, entry)]
    ELSE [cfg EXCEPT !.errors = Append(@, KeyDuplicated(entry.key))]

report_module_error(cfg, module) ==
    [cfg EXCEPT !.errors = Append(@, ModuleInner(module))]

NoResult == [ok |-> FALSE, providers |-> << >>, errors |-> << >>]

\* only the first recorded error is returned
finish_first_error(cfg) ==
    IF cfg.errors = << >>
    THEN [ok |-> TRUE, providers |-> cfg.providers, errors |-> << >>]
    ELSE [ok |-> FALSE, providers |-> << >>, errors |-> <<Head(cfg.errors)>>]

\* ConfigurerImpl::finish
finish(cfg) ==
    IF cfg.errors = << >>
    THEN [ok |-> TRUE, providers |-> cfg.providers, errors |-> << >>]
    ELSE [ok |-> FALSE, providers |-> << >>, errors |-> cfg.errors]

(***************************************************************************)
(* State.                                                                  *)
(***************************************************************************)
VARIABLES
    scn,           \* the scenario (registry, tree, requests): fixed by Init
    objects,       \* objects[c]: SharedManagedObjectData.objects of container c
    constructing,  \* constructing[c]: SharedManagedObjectData.constructing
    stack,         \* stack[t]: the get_object calls active on thread t
    inbox,         \* inbox[t]: what was sent to the oneshot Receiver of t
    returned,      \* returned[t]: the results of the requests t completed
    invoked,       \* invoked[c][k]: calls of k's provider on behalf of c
    configurer,    \* the ConfigurerImpl that Container::init fills
    setup,         \* how far Container::init has come, and what it returned
    collector,     \* one call of Collect::collect: its arguments and its result
    tree,          \* tree[c]: parent, scope and registry of container c
    subs,          \* the calls of sub_container so far: parent and child
    managed,       \* managed[c]: who holds the RwLock `managed` of container c
    walk,          \* two scopes, and the scopes reached from the first
    registry,      \* a ProviderMap, the insertions made into it and the last answers
    local,         \* LocalManagedObjectData of a LocalContext on the root
    core           \* the fields of a CoreContainer

vars == <<scn, objects, constructing, stack, inbox, returned, invoked,
          configurer, setup, collector, tree, subs, managed, walk, registry,
          local, core>>

\* the containers there are
family == <<tree, subs>>

\* the configuration pass, which ends before the first request, the
\* collection query, which reaches the containers through dyn_get only, and
\* the locks, which a step of Spec takes and releases within the step
\* the machines that stand apart from the containers
apart == <<registry, local, core>>

others == <<configurer, setup, collector, managed, walk, apart>>

providers == ProvidersOf(scn)

(***************************************************************************)
(* Values.                                                                 *)
(***************************************************************************)
NoErr == [kind |-> "none", key |-> ""]

NoObj == [key |-> "", c |-> "", n |-> 0]

\* the lookup failure reported as a failed construction
NotFound_as_construction(k) == [kind |-> "ObjectConstruction", key |-> k]

NotFound(k) == [kind |-> "NotFound", key |-> k]

CyclicDependency(k) == [kind |-> "CyclicDependency", key |-> k]

ObjectConstruction(k) == [kind |-> "ObjectConstruction", key |-> k]

Ok(o) == [ok |-> TRUE, obj |-> o, err |-> NoErr]

Err(e) == [ok |-> FALSE, obj |-> NoObj, err |-> e]

\* WaitResponse.  `built` is not in the source: it records, for the properties,
\* the object whose construction the sender announces; no step reads it.
Constructed(o) == [type |-> "Constructed", err |-> NoErr, built |-> o]

ErrorResponse(e) == [type |-> "Error", err |-> e, built |-> NoObj]

\* HashMap operations
MapInsert(m, k, v) == [x \in DOMAIN m \cup {k} |-> IF x = k THEN v ELSE m[x]]

MapRemove(m, k) == [x \in DOMAIN m \ {k} |-> m[x]]

EmptyMap == << >>

Range(s) == {s[i] : i \in DOMAIN s}

(***************************************************************************)
(* Patterns (key/pattern.rs) and Collect (container/injector/collect.rs).  *)
(* A query is a collection shape and a pattern; the pattern fixes the      *)
(* target type, and for the maps keyed by a typed qualifier also the key   *)
(* type of the map.                                                        *)
(***************************************************************************)
DynQualifier == "Box<dyn Qualifier>"

AnyPattern(target) ==
    [pattern |-> "AnyPattern", target |-> target, qualifier |-> DynQualifier]

KeyTypePattern(target, qualifier_type) ==
    [pattern |-> "KeyTypePattern", target |-> target, qualifier |-> qualifier_type]

\* a pattern that every key matches
matches_every_key(pattern, key) == TRUE

\* Pattern::matches
matches(pattern, key) ==
    IF pattern.pattern = "AnyPattern"
    THEN key.target = pattern.target
    ELSE key.target = pattern.target /\ key.qualifier_type = pattern.qualifier

SequenceShapes == {"Vec", "VecDeque", "LinkedList"}

SetShapes == {"HashSet", "BTreeSet"}

MapShapes == {"HashMap", "BTreeMap"}

\* impl_collect_for_maps: the key type of the map is a typed qualifier
TypedMap(query) ==
    query.shape \in MapShapes /\ query.pattern.qualifier # DynQualifier

\* the filters in front of dyn_get
Selected(query, key) ==
    /\ key.target = query.pattern.target
    /\ TypedMap(query) => key.qualifier_type = query.pattern.qualifier
    /\ matches(query.pattern, key)

\* the collection before the first element
EmptyOf(query) == IF query.shape \in SetShapes THEN {} ELSE << >>

is_empty(query, collection) ==
    IF query.shape \in SetShapes THEN collection = {}
    ELSE IF query.shape \in SequenceShapes THEN Len(collection) = 0
    ELSE DOMAIN collection = {}

\* the qualifier under which a map files the object of key
QualifierOf(query, key) ==
    IF TypedMap(query) THEN key.qualifier
    ELSE [qualifier_type |-> key.qualifier_type, qualifier |-> key.qualifier]

\* FromIterator of the shape, one element at a time
Extend(query, collection, key, object) ==
    IF query.shape \in SequenceShapes THEN Append(collection, object)
    ELSE IF query.shape \in SetShapes THEN collection \cup {object}
    ELSE [q \in DOMAIN collection \cup {QualifierOf(query, key)} |->
             IF q = QualifierOf(query, key) THEN object ELSE collection[q]]

EmptyCollection == [kind |-> "EmptyCollection", key |-> ""]

Collected(collection) == [ok |-> TRUE, collection |-> collection, err |-> NoErr]

NotCollected(err) == [ok |-> FALSE, collection |-> << >>, err |-> err]

\* whatever was collected is returned
collect_end_allow_empty(query, collection) == Collected(collection)

\* the test after the iterator is exhausted
collect_end(query, collection) ==
    IF ~is_empty(query, collection)
    THEN Collected(collection)
    ELSE NotCollected(EmptyCollection)

\* the iterator chain: keys that pass the filters are requested from the
\* injector in their order, and the first Err ends the iteration
RECURSIVE collect_from(_, _, _, _, _, _)
collect_from(query, keys, injector, pos, collection, calls) ==
    IF pos > Len(keys)
    THEN [result |-> collect_end(query, collection), calls |-> calls]
    ELSE IF ~Selected(query, keys[pos])
    THEN collect_from(query, keys, injector, pos + 1, collection, calls)
    ELSE IF injector[keys[pos]].ok
    THEN collect_from(query, keys, injector, pos + 1,
                      Extend(query, collection, keys[pos], injector[keys[pos]].obj),
                      Append(calls, keys[pos]))
    ELSE [result |-> NotCollected(injector[keys[pos]].err),
          calls |-> Append(calls, keys[pos])]

\* the keys that fail to resolve are left out
collect_resolved_only(query, keys, injector) ==
    collect_from(query, SelectSeq(keys, LAMBDA k : injector[k].ok), injector, 1,
                 EmptyOf(query), << >>)

\* Collect::collect
collect(query, keys, injector) ==
    collect_from(query, keys, injector, 1, EmptyOf(query), << >>)

(***************************************************************************)
(* CallContext / InjectionTrace (container/injector/context.rs): the chain *)
(* of keys from the top-level request to the current one.  The context of  *)
(* the i-th active call of a thread is the keys of calls 1..i: dyn_get     *)
(* starts a chain, dyn_get_dependency appends to the provider's context,   *)
(* and forwarding to the parent passes the context on unchanged.           *)
(***************************************************************************)
TraceOf(st) == [i \in 1..Len(st) |-> st[i].key]

\* InjectionTrace::new: one link without a previous one
InjectionTrace_new(key) == <<key>>

\* the new link forgets the receiver
InjectionTrace_append_alone(trace, key) == <<key>>

\* InjectionTrace::append: a link for key whose previous link is the receiver
InjectionTrace_append(trace, key) == Append(trace, key)

\* InjectionTrace::key: the key of the current (last) link
InjectionTrace_key(trace) == trace[Len(trace)]

\* InjectionTrace::previous: the chain without its current link (None: << >>)
InjectionTrace_previous(trace) == SubSeq(trace, 1, Len(trace) - 1)

\* CallContext::new
CallContext_new(key) == [trace |-> InjectionTrace_new(key)]

\* CallContext::append
CallContext_append(context, key) == [trace |-> InjectionTrace_append(context.trace, key)]

\* CallContext::key
CallContext_key(context) == InjectionTrace_key(context.trace)

RECURSIVE previous_exist_key_from(_, _, _)
previous_exist_key_from(trace, i, key) ==
    IF i = 0 THEN FALSE
    ELSE IF trace[i] = key THEN TRUE
    ELSE previous_exist_key_from(trace, i - 1, key)

\* a scan that starts at the current link
previous_exist_key_with_current(trace, key) == previous_exist_key_from(trace, Len(trace), key)

\* scans the links strictly before the current (last) one
previous_exist_key(trace, key) == previous_exist_key_from(trace, Len(trace) - 1, key)

(***************************************************************************)
(* Frames: one get_object call.                                            *)
(***************************************************************************)
NewFrame(c, context) ==
    [from |-> c, c |-> c, key |-> CallContext_key(context), context |-> context,
     pc |-> "get_object", mode |-> "",
     di |-> 1, got |-> NoObj, err |-> NoErr, n |-> 0]

Top(t) == stack[t][Len(stack[t])]

Active(t) == stack[t] # <<>>

At(t, pc) == Active(t) /\ Top(t).pc = pc

SetTop(st, f) == [st EXCEPT ![Len(st)] = f]

\* the stack after the current call returns res to its caller: a top-level
\* call ends the request; a provider keeps the object it receives (`got`, the
\* latest one) and asks for its next dependency, or stops at the first Err
AfterReturn(st, res) ==
    IF Len(st) = 1 THEN <<>>
    ELSE LET caller == st[Len(st) - 1]
             rest == SubSeq(st, 1, Len(st) - 1)
         IN  SetTop(rest, IF res.ok THEN [caller EXCEPT !.di = @ + 1, !.got = res.obj]
                                    ELSE [caller EXCEPT !.err = res.err])

Completed(st, res) ==
    [c |-> st[1].from, key |-> st[1].key, res |-> res]

LogReturn(t, res) ==
    IF Len(stack[t]) = 1
    THEN [returned EXCEPT ![t] = Append(@, Completed(stack[t], res))]
    ELSE returned

Return(t, res) ==
    /\ stack' = [stack EXCEPT ![t] = AfterReturn(@, res)]
    /\ returned' = LogReturn(t, res)

Last(s) == s[Len(s)]

NoThread == "none"

\* RwLock::new: no writer and no reader
Unlocked == [writer |-> NoThread, readers |-> {}]

\* no container has built anything and no thread has asked for anything
Untouched ==
    /\ objects = [c \in Containers |-> EmptyMap]
    /\ constructing = [c \in Containers |-> EmptyMap]
    /\ stack = [t \in Threads |-> <<>>]
    /\ inbox = [t \in Threads |-> <<>>]
    /\ returned = [t \in Threads |-> <<>>]
    /\ invoked = [c \in Containers |-> [k \in Keys |-> 0]]
    /\ subs = << >>
    /\ managed = [c \in Containers |-> Unlocked]

\* Container::init has not begun
SetupIdle == [n |-> 0, module |-> 1, calls |-> 0, returned |-> FALSE, result |-> NoResult]

\* no collection query is made
CollectorIdle ==
    [query |-> [shape |-> "Vec", pattern |-> AnyPattern("i32")], keys |-> << >>,
     injector |-> << >>, done |-> FALSE, result |-> NotCollected(NoErr),
     calls |-> << >>]

\* no method of a scope is called
WalkIdle ==
    [scope_type |-> "WebScope", a |-> SINGLETON, b |-> SINGLETON,
     path |-> <<SINGLETON>>, moves |-> << >>, compared |-> FALSE,
     outlive |-> FALSE, within |-> FALSE]

\* Option
None == [some |-> FALSE]

Some(value) == [some |-> TRUE, value |-> value]

\* ProviderMap::new, and nothing was asked of it
RegistryIdle ==
    [map |-> ProviderMap_new, log |-> << >>, returned |-> None,
     asked |-> FALSE, got |-> [key |-> key_of("i32"), entry |-> None]]

\* LocalManagedObjectData::new
LocalIdle == [constructing |-> {}]

\* a CoreContainer without providers
CoreIdle == [provider_map |-> << >>, object_map |-> << >>, constructing |-> {}]

ApartIdle ==
    /\ registry = RegistryIdle
    /\ local = LocalIdle
    /\ core = CoreIdle

Init ==
    /\ scn \in Scenarios
    /\ tree = TreeOf(scn)
    /\ Untouched
    /\ walk = WalkIdle
    /\ ApartIdle
    /\ configurer = ConfigurerImpl_new
    /\ setup = SetupIdle
    /\ collector = CollectorIdle

(***************************************************************************)
(* ContainerCore (container/core.rs).                                      *)
(***************************************************************************)
\* the object a provider invocation builds: every invocation builds a new one
NewObject(f) == [key |-> f.key, c |-> f.c, n |-> f.n]

try_get_constructed_object(c, key) == key \in DOMAIN objects[c]

try_get_provider_by_key(key) == key \in DOMAIN providers

\* no container forwards
should_forward_never(c, object_scope) == FALSE

\* every container that has a parent forwards
should_forward_whenever_parent(c, object_scope) == tree[c].parent # NoContainer

should_forward_request_to_parent(c, object_scope) ==
    outlive(object_scope, tree[c].scope) /\ object_scope # tree[c].scope

\* the provider is called: on behalf of container f.c, for the n-th time
CallProvider(f, mode) ==
    [f EXCEPT !.pc = "provide", !.mode = mode, !.n = invoked[f.c][f.key] + 1]

CountCall(f) == [invoked EXCEPT ![f.c][f.key] = @ + 1]

\* ConstructingObjectContext::new
NewConstructing(t) == [on_thread |-> t, waiters |-> << >>]

\* any record taken for a record of the current thread
is_constructed_by_any_thread(context, t) == TRUE

\* no record taken for a record of the current thread
is_constructed_by_no_thread(context, t) == FALSE

\* the test turned round: a record of another thread is taken for one's own
is_constructed_by_other_thread(context, t) == context.on_thread # t

\* ConstructingObjectContext::is_constructed_by_current_thread
is_constructed_by_current_thread(context, t) == context.on_thread = t

\* the Sender is dropped instead of being kept in the record
register_waiter_dropped(context, t) == context

\* ConstructingObjectContext::register_waiter
register_waiter(context, t) == [context EXCEPT !.waiters = Append(@, t)]

\* the record is left in the table
RemoveConstructing_keep(c, key) == constructing

\* notify_waiters: the record of `key`, whoever inserted it, is removed ...
RemoveConstructing(c, key) ==
    IF key \in DOMAIN constructing[c]
    THEN [constructing EXCEPT ![c] = MapRemove(@, key)]
    ELSE constructing

\* the waiters are sent nothing
NotifiedInbox_nobody(c, key, response) == inbox

\* only the waiter that registered first is sent the response
NotifiedInbox_first(c, key, response) ==
    IF key \in DOMAIN constructing[c] /\ constructing[c][key].waiters # << >>
    THEN [inbox EXCEPT ![Head(constructing[c][key].waiters)] = Append(@, response)]
    ELSE inbox

\* ... and ConstructingObjectContext::notify sends the response to its waiters
NotifiedInbox(c, key, response) ==
    IF key \in DOMAIN constructing[c]
    THEN [w \in Threads |->
            IF w \in Range(constructing[c][key].waiters)
            THEN Append(inbox[w], response)
            ELSE inbox[w]]
    ELSE inbox

notify_waiters(c, key, response) ==
    /\ constructing' = RemoveConstructing(c, key)
    /\ inbox' = NotifiedInbox(c, key, response)

\* the request is passed to the parent container
get_unbounded_object_on_parent(t, f) ==
    /\ stack' = [stack EXCEPT ![t] = SetTop(@,
            IF tree[f.c].parent # NoContainer
            THEN [f EXCEPT !.c = tree[f.c].parent]
            ELSE [f EXCEPT !.pc = "unreachable_parent"])]
    /\ UNCHANGED <<returned, invoked>>

\* the request is handled as a shared construction of the container
get_unbounded_object_as_shared(t, f) ==
    /\ stack' = [stack EXCEPT ![t] =
            SetTop(@, [f EXCEPT !.pc = "get_shared_object_from_self"])]
    /\ UNCHANGED <<returned, invoked>>

\* get_unbounded_object_from_self: the trace decides, then the provider runs
get_unbounded_object_from_self(t, f) ==
    IF previous_exist_key(f.context.trace, CallContext_key(f.context))
    THEN /\ Return(t, Err(CyclicDependency(f.key)))
         /\ UNCHANGED invoked
    ELSE /\ stack' = [stack EXCEPT ![t] = SetTop(@, CallProvider(f, "unbounded"))]
         /\ invoked' = CountCall(f)
         /\ UNCHANGED returned

\* get_object_from_parent: the same context, the parent's get_object
get_object_from_parent(t, f) ==
    /\ stack' = [stack EXCEPT ![t] = SetTop(@,
            IF tree[f.c].parent # NoContainer
            THEN [f EXCEPT !.c = tree[f.c].parent]
            ELSE [f EXCEPT !.pc = "unreachable_parent"])]
    /\ UNCHANGED <<returned, invoked>>

\* dyn_get: a thread of the application asks container c for key
DynGet(t, c, key) ==
    /\ ~Active(t)
    /\ Len(returned[t]) < BudgetOf(scn, t)
    /\ <<c, key>> \in RequestsOf(scn)
    /\ c \in DOMAIN tree
    /\ stack' = [stack EXCEPT ![t] = <<NewFrame(c, CallContext_new(key))>>]
    /\ UNCHANGED <<scn, objects, constructing, inbox, returned, invoked>>
    /\ UNCHANGED <<family, others>>

\* get_object: the cache is read under the read lock; on a miss the registry
\* entry selects what follows
get_object(t) ==
    /\ At(t, "get_object")
    /\ LET f == Top(t) IN
        IF try_get_constructed_object(f.c, f.key)
        THEN /\ Return(t, Ok(objects[f.c][f.key]))
             /\ UNCHANGED invoked
        ELSE IF ~try_get_provider_by_key(f.key)
        THEN /\ Return(t, Err(NotFound(f.key)))
             /\ UNCHANGED invoked
        ELSE LET entry == providers[f.key] IN
            IF entry.kind = "Shared"
            THEN IF should_forward_request_to_parent(f.c, entry.scope)
                 THEN get_object_from_parent(t, f)
                 ELSE IF entry.scope = tree[f.c].scope
                 THEN /\ stack' = [stack EXCEPT ![t] =
                              SetTop(@, [f EXCEPT !.pc = "get_shared_object_from_self"])]
                      /\ UNCHANGED <<returned, invoked>>
                 ELSE get_unbounded_object_from_self(t, f)
            ELSE get_unbounded_object_from_self(t, f)
    /\ UNCHANGED <<scn, objects, constructing, inbox>>

\* ... with the lock taken and released within one step of the thread
GetObject(t) ==
    /\ get_object(t)
    /\ UNCHANGED <<family, others>>

\* get_shared_object_from_self, under the write lock: stop on a record of this
\* thread, wait on a record of another thread, construct when there is none
get_shared_object_from_self(t) ==
    /\ At(t, "get_shared_object_from_self")
    /\ LET f == Top(t) IN
        IF f.key \in DOMAIN constructing[f.c]
        THEN IF is_constructed_by_current_thread(constructing[f.c][f.key], t)
             THEN \* stop_construction_on_cyclic_dependency
                  /\ notify_waiters(f.c, f.key, ErrorResponse(CyclicDependency(f.key)))
                  /\ Return(t, Err(CyclicDependency(f.key)))
                  /\ UNCHANGED invoked
             ELSE \* wait_for_constructed_object: register, then block on recv
                  /\ constructing' = [constructing EXCEPT ![f.c][f.key] =
                                          register_waiter(@, t)]
                  /\ stack' = [stack EXCEPT ![t] = SetTop(@, [f EXCEPT !.pc = "recv"])]
                  /\ UNCHANGED <<inbox, returned, invoked>>
        ELSE \* construct_shared_object: insert the record, call the provider
             /\ constructing' = [constructing EXCEPT ![f.c] =
                                     MapInsert(@, f.key, NewConstructing(t))]
             /\ stack' = [stack EXCEPT ![t] = SetTop(@, CallProvider(f, "shared"))]
             /\ invoked' = CountCall(f)
             /\ UNCHANGED <<inbox, returned>>
    /\ UNCHANGED <<scn, objects>>

\* ... with the lock taken and released within one step of the thread
GetSharedObjectFromSelf(t) ==
    /\ get_shared_object_from_self(t)
    /\ UNCHANGED <<family, others>>

\* get_object_on_object_context_response: the waiter is woken
get_object_on_object_context_response(t) ==
    /\ At(t, "recv")
    /\ inbox[t] # << >>
    /\ LET f == Top(t)
           response == Head(inbox[t])
       IN  /\ inbox' = [inbox EXCEPT ![t] = Tail(@)]
           /\ IF response.type = "Constructed"
              THEN IF f.key \in DOMAIN objects[f.c]
                   THEN Return(t, Ok(objects[f.c][f.key]))
                   ELSE /\ stack' = [stack EXCEPT ![t] =
                                SetTop(@, [f EXCEPT !.pc = "unreachable_object"])]
                        /\ UNCHANGED returned
              ELSE Return(t, Err(response.err))
    /\ UNCHANGED <<scn, objects, constructing, invoked>>

\* ... with the lock taken and released within one step of the thread
Recv(t) ==
    /\ get_object_on_object_context_response(t)
    /\ UNCHANGED <<family, others>>

\* the provider asks its injector for its next dependency
\* (ContextForwardingInjectorProxy::dyn_get -> dyn_get_dependency)
DynGetDependency(t) ==
    /\ At(t, "provide")
    /\ LET f == Top(t)
           deps == providers[f.key].deps
       IN  /\ f.err = NoErr
           /\ f.di <= Len(deps)
           /\ Len(stack[t]) < MaxDepth
           /\ stack' = [stack EXCEPT ![t] =
                Append(@, NewFrame(f.c, CallContext_append(f.context, deps[f.di])))]
    /\ UNCHANGED <<scn, objects, constructing, inbox, returned, invoked>>
    /\ UNCHANGED <<family, others>>

\* the error of a dependency is reported as a failed construction of the key
ProviderOutcomes_wrap(f) ==
    IF f.err # NoErr THEN {Err(ObjectConstruction(f.key))}
    ELSE {Ok(NewObject(f))} \cup
         (IF providers[f.key].fallible THEN {Err(ObjectConstruction(f.key))} ELSE {})

\* what the provider returns: the error of a dependency as it is, else its own
\* outcome
ProviderOutcomes(f) ==
    IF f.err # NoErr THEN {Err(f.err)}
    ELSE {Ok(NewObject(f))} \cup
         (IF providers[f.key].fallible THEN {Err(ObjectConstruction(f.key))} ELSE {})

ProviderDone(f) == f.err # NoErr \/ f.di > Len(providers[f.key].deps)

\* the cache is given an entry whatever the provider returned
FinishShared_insert_always(t, f, res) ==
    /\ objects' = [objects EXCEPT ![f.c] =
                       MapInsert(@, f.key, IF res.ok THEN res.obj ELSE NewObject(f))]
    /\ notify_waiters(f.c, f.key,
                      IF res.ok THEN Constructed(res.obj) ELSE ErrorResponse(res.err))
    /\ Return(t, res)

\* construct_shared_object after dyn_provide_shared returned
FinishShared(t, f, res) ==
    /\ objects' = IF res.ok
                  THEN [objects EXCEPT ![f.c] = MapInsert(@, f.key, res.obj)]
                  ELSE objects
    /\ notify_waiters(f.c, f.key,
                      IF res.ok THEN Constructed(res.obj) ELSE ErrorResponse(res.err))
    /\ Return(t, res)

\* the provider returns to construct_shared_object
construct_shared_object_arms(t) ==
    /\ At(t, "provide")
    /\ Top(t).mode = "shared"
    /\ ProviderDone(Top(t))
    /\ \E res \in ProviderOutcomes(Top(t)) : FinishShared(t, Top(t), res)
    /\ UNCHANGED <<scn, invoked>>

\* ... with the lock taken and released within one step of the thread
ProvideShared(t) ==
    /\ construct_shared_object_arms(t)
    /\ UNCHANGED <<family, others>>

\* the provider returns to get_unbounded_object_from_self
ProvideUnbounded(t) ==
    /\ At(t, "provide")
    /\ Top(t).mode = "unbounded"
    /\ ProviderDone(Top(t))
    /\ \E res \in ProviderOutcomes(Top(t)) : Return(t, res)
    /\ UNCHANGED <<scn, objects, constructing, inbox, invoked>>
    /\ UNCHANGED <<family, others>>

Step(t) ==
    \/ \E c \in Containers, key \in Keys : DynGet(t, c, key)
    \/ GetObject(t)
    \/ GetSharedObjectFromSelf(t)
    \/ Recv(t)
    \/ DynGetDependency(t)
    \/ ProvideShared(t)
    \/ ProvideUnbounded(t)

\* the first name of the pool that no container has
FreeName == Pool[CHOOSE i \in DOMAIN Pool :
                    /\ Pool[i] \notin DOMAIN tree
                    /\ \A j \in 1..(i - 1) : Pool[j] \in DOMAIN tree]

\* Container::sub_container on container p -> ContainerCore::new_sub: None
\* when the scope of p has no sub-scope, else a container with a fresh
\* SharedManagedObjectData
SubContainer(p) ==
    /\ Len(subs) < SubsOf(scn)
    /\ p \in DOMAIN tree
    /\ IF sub_scope(tree[p].scope) = NoScope
       THEN /\ subs' = Append(subs, [parent |-> p, child |-> NoContainer])
            /\ UNCHANGED <<tree, objects, constructing>>
       ELSE /\ \E i \in DOMAIN Pool : Pool[i] \notin DOMAIN tree
            /\ LET child == FreeName IN
                /\ tree' = [c \in DOMAIN tree \cup {child} |->
                               IF c = child THEN new_sub(tree, p) ELSE tree[c]]
                /\ objects' = [objects EXCEPT ![child] = EmptyMap]
                /\ constructing' = [constructing EXCEPT ![child] = EmptyMap]
                /\ subs' = Append(subs, [parent |-> p, child |-> child])
    /\ UNCHANGED <<scn, stack, inbox, returned, invoked>>
    /\ UNCHANGED others

Next ==
    \/ \E t \in Threads : Step(t)
    \/ \E p \in Containers : SubContainer(p)

Spec == Init /\ [][Next]_vars

\* every thread that can take a step eventually takes one
FairSpec == Spec /\ \A t \in Threads : WF_vars(Step(t))

(***************************************************************************)
(* The RwLock `managed` of each container (parking_lot::RwLock around      *)
(* SharedManagedObjectData, core.rs): LockSpec runs the same calls with    *)
(* the acquisition of the lock as a step of its own, at which a thread     *)
(* blocks while the lock is held against it.  A critical section and the   *)
(* release at its end are one step.                                        *)
(***************************************************************************)
\* the lock that the next statement of thread t acquires
Wants(t) ==
    IF ~Active(t) THEN "none"
    ELSE CASE Top(t).pc = "get_object" -> "read"
           [] Top(t).pc = "get_shared_object_from_self" -> "write"
           [] Top(t).pc = "recv" ->
                IF inbox[t] # << >> /\ Head(inbox[t]).type = "Constructed"
                THEN "read" ELSE "none"
           [] Top(t).pc = "provide" ->
                IF Top(t).mode = "shared" /\ ProviderDone(Top(t))
                THEN "write" ELSE "none"
           [] OTHER -> "none"

HoldsRead(t, c) == t \in managed[c].readers

HoldsWrite(t, c) == managed[c].writer = t

Holds(t, c) == HoldsRead(t, c) \/ HoldsWrite(t, c)

\* RwLock::read / RwLock::write return at once
CanAcquire(c, mode) ==
    IF mode = "read" THEN managed[c].writer = NoThread
    ELSE managed[c].writer = NoThread /\ managed[c].readers = {}

\* the guard is never dropped
drop_never(lock, t) == lock

\* the guard of thread t is dropped
drop(lock, t) ==
    [writer |-> IF lock.writer = t THEN NoThread ELSE lock.writer,
     readers |-> lock.readers \ {t}]

\* self.managed.read() / self.managed.write()
Acquire(t) ==
    /\ Wants(t) # "none"
    /\ ~Holds(t, Top(t).c)
    /\ CanAcquire(Top(t).c, Wants(t))
    /\ managed' = [managed EXCEPT ![Top(t).c] =
            IF Wants(t) = "read"
            THEN [@ EXCEPT !.readers = @ \cup {t}]
            ELSE [@ EXCEPT !.writer = t]]
    /\ UNCHANGED <<scn, objects, constructing, stack, inbox, returned, invoked>>
    /\ UNCHANGED <<family, configurer, setup, collector, walk, apart>>

\* thread t is in the critical section that its current call enters
InSection(t, mode) ==
    /\ Wants(t) = mode
    /\ IF mode = "read" THEN HoldsRead(t, Top(t).c) ELSE HoldsWrite(t, Top(t).c)

\* the end of the guard's life, at the end of the critical section
Release(t) ==
    /\ managed' = [managed EXCEPT ![Top(t).c] = drop(@, t)]
    /\ UNCHANGED <<family, configurer, setup, collector, walk, apart>>

LockedGetObject(t) ==
    /\ InSection(t, "read")
    /\ get_object(t)
    /\ Release(t)

LockedGetSharedObjectFromSelf(t) ==
    /\ InSection(t, "write")
    /\ get_shared_object_from_self(t)
    /\ Release(t)

LockedProvideShared(t) ==
    /\ InSection(t, "write")
    /\ construct_shared_object_arms(t)
    /\ Release(t)

\* a Constructed response is followed by a read of the cache under the read
\* lock
LockedRecv(t) ==
    /\ InSection(t, "read")
    /\ get_object_on_object_context_response(t)
    /\ Release(t)

\* an Error response is returned as it is
RecvError(t) ==
    /\ Wants(t) = "none"
    /\ Recv(t)

\* the scenarios in which providers call back into their container, threads
\* contend for one key, and requests cross containers
LockScenarios == {"race", "fail", "reenter", "forward", "transient"}

LockInit == Init /\ scn \in LockScenarios

LockNext ==
    \E t \in Threads :
        \/ Acquire(t)
        \/ LockedGetObject(t)
        \/ LockedGetSharedObjectFromSelf(t)
        \/ LockedProvideShared(t)
        \/ LockedRecv(t)
        \/ RecvError(t)
        \/ \E c \in Containers, key \in Keys : DynGet(t, c, key)
        \/ DynGetDependency(t)
        \/ ProvideUnbounded(t)

LockSpec == LockInit /\ [][LockNext]_vars

(***************************************************************************)
(* The trait Scope (scope.rs) on its two implementations: two scopes a and *)
(* b of one implementation are compared, and sub_scope and super_scope are *)
(* applied in any order starting from a, until one of them returns None.   *)
(***************************************************************************)
ScopeInit ==
    /\ scn = "race"
    /\ tree = RootOnly
    /\ Untouched
    /\ ApartIdle
    /\ configurer = ConfigurerImpl_new
    /\ setup = SetupIdle
    /\ collector = CollectorIdle
    /\ \E S \in ScopeTypes : \E a, b \in ValuesOf(S) :
        walk = [WalkIdle EXCEPT !.scope_type = S, !.a = a, !.b = b, !.path = <<a>>]

\* a.outlive(b) and a.within(b)
Compare ==
    /\ ~walk.compared
    /\ walk' = [walk EXCEPT !.compared = TRUE,
                            !.outlive = outlive(walk.a, walk.b),
                            !.within = within(walk.a, walk.b)]
    /\ UNCHANGED <<scn, objects, constructing, stack, inbox, returned, invoked>>
    /\ UNCHANGED <<family, configurer, setup, collector, managed, apart>>

\* the scope reached last is a scope, and may be asked
CanMove == Len(walk.moves) < MaxWalk /\ Last(walk.path) # NoScope

\* the walk after method m returned s
Moved(m, s) == [walk EXCEPT !.moves = Append(@, m), !.path = Append(@, s)]

\* Scope::sub_scope on the scope reached last
SubScope ==
    /\ CanMove
    /\ walk' = Moved("sub", sub_scope_of(walk.scope_type, Last(walk.path)))
    /\ UNCHANGED <<scn, objects, constructing, stack, inbox, returned, invoked>>
    /\ UNCHANGED <<family, configurer, setup, collector, managed, apart>>

\* Scope::super_scope on the scope reached last
SuperScope ==
    /\ CanMove
    /\ walk' = Moved("super", super_scope_of(walk.scope_type, Last(walk.path)))
    /\ UNCHANGED <<scn, objects, constructing, stack, inbox, returned, invoked>>
    /\ UNCHANGED <<family, configurer, setup, collector, managed, apart>>

ScopeNext == Compare \/ SubScope \/ SuperScope

ScopeSpec == ScopeInit /\ [][ScopeNext]_vars

(***************************************************************************)
(* Container::init (container/handle.rs): a Configuration sets up its      *)
(* modules one after the other on one ConfigurerImpl (module/mod.rs); a    *)
(* module registers providers and its `configure` returns Ok or Err; then  *)
(* `finish` is called.                                                     *)
(***************************************************************************)
resolution ==
    <<scn, objects, constructing, stack, inbox, returned, invoked, collector,
      tree, subs, managed, walk, apart>>

ConfigKeys == {key_of("i32"), key_named("i32", "1"), key_of("str")}

\* a module is being set up
Configuring == ~setup.returned /\ setup.module <= setup.n

\* the provider handed over in the next registration: no two are the same
NextProvider == [module |-> setup.module, call |-> setup.calls + 1]

ConfigInit ==
    /\ scn = "race"
    /\ tree = RootOnly
    /\ Untouched
    /\ walk = WalkIdle
    /\ ApartIdle
    /\ configurer = ConfigurerImpl_new
    /\ setup \in {[SetupIdle EXCEPT !.n = n] : n \in 0..MaxModules}
    /\ collector = CollectorIdle

\* TypedConfigurer::register -> dyn_register
DynRegister(key) ==
    /\ Configuring
    /\ setup.calls < MaxCalls
    /\ configurer' = dyn_register(configurer, new_owned(key, NextProvider))
    /\ setup' = [setup EXCEPT !.calls = @ + 1]
    /\ UNCHANGED resolution

\* TypedConfigurer::register_shared -> dyn_register_shared
DynRegisterShared(key, scope) ==
    /\ Configuring
    /\ setup.calls < MaxCalls
    /\ configurer' = dyn_register(configurer, new_shared(key, NextProvider, scope))
    /\ setup' = [setup EXCEPT !.calls = @ + 1]
    /\ UNCHANGED resolution

\* Module::setup: `configure` of the current module returns; its Err is
\* reported, and Configuration::configure goes on to the next module
ModuleSetup(failed) ==
    /\ Configuring
    /\ configurer' = IF failed THEN report_module_error(configurer, setup.module)
                              ELSE configurer
    /\ setup' = [setup EXCEPT !.module = @ + 1]
    /\ UNCHANGED resolution

\* ConfigurerImpl::finish, after the Configuration has been set up
Finish ==
    /\ ~setup.returned
    /\ setup.module > setup.n
    /\ setup' = [setup EXCEPT !.returned = TRUE, !.result = finish(configurer)]
    /\ UNCHANGED configurer
    /\ UNCHANGED resolution

ConfigNext ==
    \/ \E key \in ConfigKeys : DynRegister(key)
    \/ \E key \in ConfigKeys : DynRegisterShared(key, SINGLETON)
    \/ \E failed \in BOOLEAN : ModuleSetup(failed)
    \/ Finish

ConfigSpec == ConfigInit /\ [][ConfigNext]_vars

(***************************************************************************)
(* TypedInjector::collect (container/injector/mod.rs): the injector lists  *)
(* keys, Collect::collect filters them and asks the injector for each.     *)
(* The injector is any injector: it answers dyn_get(key) with an object or *)
(* with an error.                                                          *)
(***************************************************************************)
CollectKeys ==
    {key_of("i32"), key_named("i32", "1"), key_named("i32", "2"), key_of("str")}

CollectTargets == {"i32", "f64"}

QualifierTypes == {"unit", "str"}

Patterns ==
    {AnyPattern(t) : t \in CollectTargets} \cup
    {KeyTypePattern(t, q) : t \in CollectTargets, q \in QualifierTypes}

\* the shapes that implement Collect<P> for the pattern P
Queries ==
    {[shape |-> s, pattern |-> p] :
        s \in SequenceShapes \cup SetShapes \cup MapShapes, p \in Patterns} \
    {[shape |-> "BTreeMap", pattern |-> AnyPattern(t)] : t \in CollectTargets}

\* the keys an injector lists: no key twice, in any order
KeyLists ==
    UNION {{ks \in [1..n -> CollectKeys] :
                \A i, j \in 1..n : i # j => ks[i] # ks[j]} : n \in 0..MaxKeys}

\* what dyn_get(key) returns: one of two objects, or an error
Answers == {"x", "y", "err"}

CollectInit ==
    /\ scn = "race"
    /\ tree = RootOnly
    /\ Untouched
    /\ walk = WalkIdle
    /\ ApartIdle
    /\ configurer = ConfigurerImpl_new
    /\ setup = SetupIdle
    /\ \E query \in Queries, keys \in KeyLists :
        \E injector \in [Range(keys) -> Answers] :
            collector = [CollectorIdle EXCEPT
                !.query = query,
                !.keys = keys,
                !.injector = [k \in Range(keys) |->
                    IF injector[k] = "err" THEN Err(NotFound(k)) ELSE Ok(injector[k])]]

\* TypedInjector::collect
Collect ==
    /\ ~collector.done
    /\ LET r == collect(collector.query, collector.keys, collector.injector)
       IN  collector' = [collector EXCEPT
                !.done = TRUE, !.result = r.result, !.calls = r.calls]
    /\ UNCHANGED <<scn, objects, constructing, stack, inbox, returned, invoked>>
    /\ UNCHANGED <<configurer, setup, tree, subs, managed, walk, apart>>

CollectSpec == CollectInit /\ [][Collect]_vars

(***************************************************************************)
(* SharedContext (container/context/shared.rs), the earlier protocol of    *)
(* the shared part of a container: get_object constructs a shared key      *)
(* whose scope is the scope of the context, forwards one of a wider scope  *)
(* to the parent, and rejects every other request.  Its                    *)
(* get_object_from_current_context, wait_for_constructed_object,           *)
(* construct_object and notify_waiters are, line for line, the             *)
(* get_shared_object_from_self, wait_for_constructed_object,               *)
(* construct_shared_object and notify_waiters of ContainerCore, whose      *)
(* actions stand for them here; a provider asks the context it is          *)
(* constructed on (dyn_provide_shared(self)).                              *)
(***************************************************************************)
ShortLifetime(k) == [kind |-> "ShortLifetime", key |-> k]

\* the provider is called all the same
reject_by_constructing(t, f) == get_unbounded_object_from_self(t, f)

\* Err(InjectorError::ShortLifetime { key, lifetime, scope })
reject(t, f) ==
    /\ Return(t, Err(ShortLifetime(f.key)))
    /\ UNCHANGED invoked

\* SharedContext::get_object
SharedContext_get_object(t) ==
    /\ At(t, "get_object")
    /\ LET f == Top(t) IN
        IF try_get_constructed_object(f.c, f.key)
        THEN /\ Return(t, Ok(objects[f.c][f.key]))
             /\ UNCHANGED invoked
        ELSE IF ~try_get_provider_by_key(f.key)
        THEN /\ Return(t, Err(NotFound(f.key)))
             /\ UNCHANGED invoked
        ELSE LET entry == providers[f.key] IN
            IF entry.kind = "Shared"
            THEN IF should_forward_request_to_parent(f.c, entry.scope)
                 THEN get_object_from_parent(t, f)
                 ELSE IF entry.scope = tree[f.c].scope
                 THEN /\ stack' = [stack EXCEPT ![t] =
                              SetTop(@, [f EXCEPT !.pc = "get_shared_object_from_self"])]
                      /\ UNCHANGED <<returned, invoked>>
                 ELSE reject(t, f)
            ELSE reject(t, f)
    /\ UNCHANGED <<scn, objects, constructing, inbox>>

SharedContextGetObject(t) ==
    /\ SharedContext_get_object(t)
    /\ UNCHANGED <<family, others>>

SharedScenarios == {"short", "race", "reenter", "narrow"}

SharedInit ==
    /\ scn \in SharedScenarios
    /\ tree = TreeOf(scn)
    /\ Untouched
    /\ walk = WalkIdle
    /\ ApartIdle
    /\ configurer = ConfigurerImpl_new
    /\ setup = SetupIdle
    /\ collector = CollectorIdle

SharedNext ==
    \E t \in Threads :
        \/ \E c \in Containers, key \in Keys : DynGet(t, c, key)
        \/ SharedContextGetObject(t)
        \/ GetSharedObjectFromSelf(t)
        \/ Recv(t)
        \/ DynGetDependency(t)
        \/ ProvideShared(t)

SharedSpec == SharedInit /\ [][SharedNext]_vars

(***************************************************************************)
(* LocalContext (container/context/local.rs): a context for the Owned keys *)
(* on top of the SharedContext of the root.  It hands the requests for     *)
(* Shared keys to the SharedContext and constructs the Owned keys itself,  *)
(* with the keys in construction in one set behind a Mutex; a provider it  *)
(* calls asks the LocalContext for its dependencies.                       *)
(***************************************************************************)
\* a call of LocalContext::get_object
LocalFrame(key) ==
    [NewFrame("root", CallContext_new(key)) EXCEPT !.pc = "local_get_object"]

\* Injector::dyn_get on the LocalContext, by a thread of the application
LocalDynGet(t, key) ==
    /\ ~Active(t)
    /\ Len(returned[t]) < BudgetOf(scn, t)
    /\ <<"root", key>> \in RequestsOf(scn)
    /\ stack' = [stack EXCEPT ![t] = <<LocalFrame(key)>>]
    /\ UNCHANGED <<scn, objects, constructing, inbox, returned, invoked>>
    /\ UNCHANGED <<family, others>>

\* get_object_from_current_context up to the call of the provider: under the
\* Mutex, a key found in the set ends the request, else the key is put in
LocalContext_get_object_from_current_context(t, f) ==
    IF f.key \in local.constructing
    THEN /\ Return(t, Err(CyclicDependency(f.key)))
         /\ UNCHANGED <<invoked, local>>
    ELSE /\ local' = [local EXCEPT !.constructing = @ \cup {f.key}]
         /\ stack' = [stack EXCEPT ![t] =
                SetTop(@, [CallProvider(f, "local") EXCEPT !.pc = "local_provide"])]
         /\ invoked' = CountCall(f)
         /\ UNCHANGED returned

\* LocalContext::get_object
LocalGetObject(t) ==
    /\ At(t, "local_get_object")
    /\ LET f == Top(t) IN
        IF ~try_get_provider_by_key(f.key)
        THEN /\ Return(t, Err(NotFound(f.key)))
             /\ UNCHANGED <<invoked, local>>
        ELSE IF providers[f.key].kind = "Shared"
        THEN \* self.shared.dyn_get(key)
             /\ stack' = [stack EXCEPT ![t] = SetTop(@, [f EXCEPT !.pc = "get_object"])]
             /\ UNCHANGED <<returned, invoked, local>>
        ELSE LocalContext_get_object_from_current_context(t, f)
    /\ UNCHANGED <<scn, objects, constructing, inbox>>
    /\ UNCHANGED <<family, configurer, setup, collector, managed, walk, registry, core>>

\* the provider of an Owned key asks the LocalContext for its next dependency
LocalDynGetDependency(t) ==
    /\ At(t, "local_provide")
    /\ LET f == Top(t)
           deps == providers[f.key].deps
       IN  /\ f.err = NoErr
           /\ f.di <= Len(deps)
           /\ Len(stack[t]) < MaxDepth
           /\ stack' = [stack EXCEPT ![t] = Append(@, LocalFrame(deps[f.di]))]
    /\ UNCHANGED <<scn, objects, constructing, inbox, returned, invoked>>
    /\ UNCHANGED <<family, others>>

\* managed.constructing.remove(key)
LocalRemove(constructing_set, key) == constructing_set \ {key}

\* get_object_from_current_context after the provider returned: under the
\* Mutex the key is taken out of the set, and the result is returned
LocalProvided(t) ==
    /\ At(t, "local_provide")
    /\ ProviderDone(Top(t))
    /\ local' = [local EXCEPT !.constructing = LocalRemove(@, Top(t).key)]
    /\ \E res \in ProviderOutcomes(Top(t)) : Return(t, res)
    /\ UNCHANGED <<scn, objects, constructing, inbox, invoked>>
    /\ UNCHANGED <<family, configurer, setup, collector, managed, walk, registry, core>>

LocalInit ==
    /\ scn = "local"
    /\ tree = TreeOf(scn)
    /\ Untouched
    /\ walk = WalkIdle
    /\ ApartIdle
    /\ configurer = ConfigurerImpl_new
    /\ setup = SetupIdle
    /\ collector = CollectorIdle

LocalNext ==
    \E t \in Threads :
        \/ \E key \in Keys : LocalDynGet(t, key)
        \/ LocalGetObject(t)
        \/ LocalDynGetDependency(t)
        \/ LocalProvided(t)
        \/ SharedContextGetObject(t)
        \/ GetSharedObjectFromSelf(t)
        \/ Recv(t)
        \/ DynGetDependency(t)
        \/ ProvideShared(t)

LocalSpec == LocalInit /\ [][LocalNext]_vars

(***************************************************************************)
(* CoreContainer (container/core.rs of the single-threaded revision): one  *)
(* container behind &mut self, with the keys in resolution in a set; a     *)
(* provider is moved out of the registry while it runs                     *)
(* (ProviderMap::move_out leaves TemporaryMoved in its place) and asks the *)
(* container for its dependencies.                                         *)
(***************************************************************************)
\* the thread that owns the container
Owner == "t1"

\* ProviderEntry::TemporaryMoved(key)
TemporaryMoved(key) == [kind |-> "TemporaryMoved", key |-> key]

\* ProviderEntry::Owned(provider) / ProviderEntry::Shared(provider)
CoreEntry(key) == [kind |-> providers[key].kind, key |-> key]

\* ProviderMap::move_out: the map afterwards
move_out(provider_map, key) ==
    IF key \in DOMAIN provider_map
    THEN [provider_map EXCEPT ![key] = TemporaryMoved(key)]
    ELSE provider_map

\* ProviderMap::insert(provider): the entry of the provider's key is replaced
CoreInsert(provider_map, entry) == MapInsert(provider_map, entry.key, entry)

\* a call of Injector::dyn_get
CoreFrame(key) ==
    [NewFrame("root", CallContext_new(key)) EXCEPT !.pc = "core_dyn_get"]

CoreInit ==
    /\ scn = "core"
    /\ tree = TreeOf(scn)
    /\ Untouched
    /\ walk = WalkIdle
    /\ registry = RegistryIdle
    /\ local = LocalIdle
    /\ configurer = ConfigurerImpl_new
    /\ setup = SetupIdle
    /\ collector = CollectorIdle
    /\ core = [CoreIdle EXCEPT !.provider_map = [k \in DOMAIN providers |-> CoreEntry(k)]]

\* the owner of the container calls dyn_get
CoreDynGet(key) ==
    /\ ~Active(Owner)
    /\ Len(returned[Owner]) < MaxCoreRequests
    /\ <<"root", key>> \in RequestsOf(scn)
    /\ stack' = [stack EXCEPT ![Owner] = <<CoreFrame(key)>>]
    /\ UNCHANGED <<scn, objects, constructing, inbox, returned, invoked>>
    /\ UNCHANGED <<family, others>>

\* get_impl up to the call of the provider, between the insert and the remove
\* of dyn_get: a cached object, or the entry moved out of the registry
get_impl(f) ==
    IF f.key \in DOMAIN core.object_map
    THEN /\ Return(Owner, Ok(core.object_map[f.key]))
         /\ UNCHANGED <<invoked, core>>
    ELSE IF f.key \notin DOMAIN core.provider_map
    THEN /\ Return(Owner, Err(NotFound(f.key)))
         /\ UNCHANGED <<invoked, core>>
    ELSE LET entry == core.provider_map[f.key] IN
        IF entry.kind = "TemporaryMoved"
        THEN /\ Return(Owner, Err(CyclicDependency(entry.key)))
             /\ core' = [core EXCEPT !.provider_map = move_out(@, f.key)]
             /\ UNCHANGED invoked
        ELSE /\ core' = [core EXCEPT !.provider_map = move_out(@, f.key),
                                     !.constructing = @ \cup {f.key}]
             /\ stack' = [stack EXCEPT ![Owner] =
                    SetTop(@, [CallProvider(f, entry.kind) EXCEPT !.pc = "core_provide"])]
             /\ invoked' = CountCall(f)
             /\ UNCHANGED returned

\* Injector::dyn_get: a key in the constructing set ends the call
CoreGet ==
    /\ At(Owner, "core_dyn_get")
    /\ LET f == Top(Owner) IN
        IF f.key \in core.constructing
        THEN /\ Return(Owner, Err(CyclicDependency(f.key)))
             /\ UNCHANGED <<invoked, core>>
        ELSE get_impl(f)
    /\ UNCHANGED <<scn, objects, constructing, inbox>>
    /\ UNCHANGED <<family, configurer, setup, collector, managed, walk, registry, local>>

\* the provider asks the container for its next dependency
CoreDynGetDependency ==
    /\ At(Owner, "core_provide")
    /\ LET f == Top(Owner)
           deps == providers[f.key].deps
       IN  /\ f.err = NoErr
           /\ f.di <= Len(deps)
           /\ Len(stack[Owner]) < MaxDepth
           /\ stack' = [stack EXCEPT ![Owner] = Append(@, CoreFrame(deps[f.di]))]
    /\ UNCHANGED <<scn, objects, constructing, inbox, returned, invoked>>
    /\ UNCHANGED <<family, others>>

\* get_impl after the provider returned, and the remove of dyn_get: an Owned
\* provider is put back into the registry; the object of a Shared provider
\* is cached when there is one
CoreProvided ==
    /\ At(Owner, "core_provide")
    /\ ProviderDone(Top(Owner))
    /\ LET f == Top(Owner) IN
        \E res \in ProviderOutcomes(f) :
            /\ core' = [core EXCEPT
                    !.provider_map =
                        IF f.mode = "Owned" THEN CoreInsert(@, CoreEntry(f.key)) ELSE @,
                    !.object_map =
                        IF f.mode = "Shared" /\ res.ok
                        THEN MapInsert(@, f.key, res.obj) ELSE @,
                    !.constructing = @ \ {f.key}]
            /\ Return(Owner, res)
    /\ UNCHANGED <<scn, objects, constructing, inbox, invoked>>
    /\ UNCHANGED <<family, configurer, setup, collector, managed, walk, registry, local>>

CoreNext ==
    \/ \E key \in Keys : CoreDynGet(key)
    \/ CoreGet
    \/ CoreDynGetDependency
    \/ CoreProvided

CoreSpec == CoreInit /\ [][CoreNext]_vars

(***************************************************************************)
(* ProviderMap on its own (registry/provider_map.rs): entries are inserted *)
(* with insert and insert_shared, whatever is registered already, and keys *)
(* are looked up with get.                                                 *)
(***************************************************************************)
MaxInserts == 3

\* two keys of a type with a qualifier, one without, and a key of another type
MapKeys ==
    {key_of("i32"), key_named("i32", "a"), key_named("i32", "b"), key_of("str")}

MapProviders == {"p1", "p2"}

MapInit ==
    /\ scn = "race"
    /\ tree = RootOnly
    /\ Untouched
    /\ walk = WalkIdle
    /\ configurer = ConfigurerImpl_new
    /\ setup = SetupIdle
    /\ collector = CollectorIdle
    /\ registry = RegistryIdle
    /\ local = LocalIdle
    /\ core = CoreIdle

\* the registry after insert_impl(entry), and what the call returned
Inserted(entry) ==
    [registry EXCEPT
        !.map = ProviderMap_insert_impl(registry.map, entry),
        !.log = Append(@, entry),
        !.returned = ProviderMap_insert_returned(registry.map, entry)]

\* ProviderMap::insert
RegistryInsert(key, provider) ==
    /\ Len(registry.log) < MaxInserts
    /\ registry' = Inserted(new_owned(key, provider))
    /\ UNCHANGED <<scn, objects, constructing, stack, inbox, returned, invoked>>
    /\ UNCHANGED <<family, configurer, setup, collector, managed, walk, local, core>>

\* ProviderMap::insert_shared
RegistryInsertShared(key, provider, scope) ==
    /\ Len(registry.log) < MaxInserts
    /\ registry' = Inserted(new_shared(key, provider, scope))
    /\ UNCHANGED <<scn, objects, constructing, stack, inbox, returned, invoked>>
    /\ UNCHANGED <<family, configurer, setup, collector, managed, walk, local, core>>

\* ProviderMap::get
RegistryGet(key) ==
    /\ registry' = [registry EXCEPT
            !.asked = TRUE,
            !.got = [key |-> key, entry |-> ProviderMap_get_option(registry.map, key)]]
    /\ UNCHANGED <<scn, objects, constructing, stack, inbox, returned, invoked>>
    /\ UNCHANGED <<family, configurer, setup, collector, managed, walk, local, core>>

MapNext ==
    \/ \E key \in MapKeys, provider \in MapProviders : RegistryInsert(key, provider)
    \/ \E key \in MapKeys, provider \in MapProviders :
            RegistryInsertShared(key, provider, SingletonScope)
    \/ \E key \in MapKeys : RegistryGet(key)

MapSpec == MapInit /\ [][MapNext]_vars

(***************************************************************************)
(* Properties.                                                             *)
(***************************************************************************)
\* the requests completed so far, by any thread
Results == UNION {Range(returned[t]) : t \in Threads}

\* key is registered as Shared with the scope of container c
SharedHere(c, key) ==
    /\ c \in DOMAIN tree
    /\ key \in DOMAIN providers
    /\ providers[key].kind = "Shared"
    /\ providers[key].scope = tree[c].scope

\* thread t has made all its requests and each has returned
Done(t) == ~Active(t) /\ Len(returned[t]) = BudgetOf(scn, t)

\* C1: a shared key bound to the scope of container c, requested concurrently
\* by several threads on c: its provider is invoked once on c and every
\* requester receives the same instance.  (Scenarios "race" and "acyclic":
\* no provider fails and no key needs itself.)
C1_InvokedOnceSameInstance ==
    scn \in {"race", "acyclic"} =>
        \A key \in DOMAIN providers :
            SharedHere("root", key) =>
                /\ invoked["root"][key] <= 1
                /\ \A r1, r2 \in Results :
                        (r1.key = key /\ r2.key = key /\ r1.res.ok /\ r2.res.ok)
                            => r1.res.obj = r2.res.obj

\* the keys that the provider of key requests, directly or through others
RECURSIVE Needs(_, _)
Needs(keys, n) ==
    IF n = 0 THEN keys
    ELSE Needs(keys \cup UNION {IF k \in DOMAIN providers
                                THEN Range(providers[k].deps) ELSE {} : k \in keys},
               n - 1)

NeedsOf(key) ==
    IF key \in DOMAIN providers
    THEN Needs(Range(providers[key].deps), Cardinality(Keys))
    ELSE {}

NeedsItself(key) == key \in NeedsOf(key)

\* no key that needs itself can be reached from key
CycleFree(key) == \A k \in NeedsOf(key) \cup {key} : ~NeedsItself(k)

\* thread t takes a step in which its current call returns
ReturnsIn(t) == Active(t) /\ Len(stack'[t]) = Len(stack[t]) - 1

\* ... and what it returns: to the application, or to the calling provider
ResultIn(t) ==
    IF Len(stack[t]) = 1 THEN Last(returned'[t]).res
    ELSE LET caller == stack'[t][Len(stack'[t])]
         IN  IF caller.err # NoErr THEN Err(caller.err) ELSE Ok(caller.got)

AllCyclicDependency == \A r \in Results : r.res.err.kind = "CyclicDependency"

AllDone == \A t \in Threads : Done(t)

\* C2: A needs B and B needs A, both shared in the root; one thread requests
\* A while another requests B: both requests end with CyclicDependency and no
\* thread stays blocked.
C2_CrossThreadCycleDetected ==
    (scn = "cycAB") => ([]AllCyclicDependency /\ <>AllDone)

\* C3: shared keys of the root with an acyclic dependency graph and no failing
\* provider: every request returns Ok, in every interleaving, and every thread
\* that blocked on another thread's construction resumes.
C3_AcyclicRequestsSucceed ==
    (scn \in {"race", "acyclic"}) =>
        ([](\A r \in Results : r.res.ok) /\ <>AllDone)

\* a thread is blocked on the construction of another thread
C3_Witness ==
    /\ scn = "acyclic"
    /\ \E t \in Threads :
        /\ At(t, "recv")
        /\ Top(t).key \in DOMAIN constructing[Top(t).c]
        /\ constructing[Top(t).c][Top(t).key].on_thread # t

\* C5: A needs B and B needs A, both shared in the root; two threads request
\* A: both requests end with CyclicDependency in every interleaving.
C5_BothFailCyclic ==
    (scn = "cycAA") => ([]AllCyclicDependency /\ <>AllDone)

\* both threads have their result, and one of them had waited for the other
C5_Witness ==
    /\ scn = "cycAA"
    /\ Len(returned["t1"]) = 1
    /\ Len(returned["t2"]) = 1
    /\ invoked["root"]["A"] = 1

\* C6: a request for an Owned key that needs itself, directly or through
\* other keys, ends with CyclicDependency; a request for an Owned key from
\* which no cycle can be reached never ends with CyclicDependency, whatever
\* other call chains (earlier ones, or other threads) request.
C6_OwnedCycles ==
    \A r \in Results :
        (r.key \in DOMAIN providers /\ providers[r.key].kind = "Owned") =>
            /\ NeedsItself(r.key) => r.res.err.kind = "CyclicDependency"
            /\ CycleFree(r.key) => r.res.ok

\* one Owned key failed on its cycle, and an acyclic Owned key was built for
\* two call chains
C6_Witness ==
    /\ scn = "owned"
    /\ \E r \in Results : r.key \in {"O", "Q"}
    /\ \E r1, r2 \in Results : r1.key = "A" /\ r2.key = "A" /\ r1.res.obj # r2.res.obj

\* C7: a shared key bound to a scope that strictly outlives the scope of two
\* sibling containers, resolved from each: both get the same instance, which
\* is cached in the ancestor of that scope and in neither sibling.
C7_ForwardedSameInstance ==
    \A r1, r2 \in Results :
        (/\ r1.key = r2.key
         /\ r1.key \in DOMAIN providers
         /\ providers[r1.key].kind = "Shared"
         /\ \A r \in {r1, r2} :
                should_forward_request_to_parent(r.c, providers[r.key].scope)
         /\ r1.res.ok /\ r2.res.ok)
        => /\ r1.res.obj = r2.res.obj
           /\ r1.key \notin DOMAIN objects[r1.c]
           /\ r1.key \notin DOMAIN objects[r2.c]
           /\ r1.key \in DOMAIN objects["root"]

\* C8: two resolutions of the same shared key, one after the other, on the
\* container of its scope return the same instance.
C8_SequentialSameInstance ==
    \A t \in Threads : \A i, j \in DOMAIN returned[t] :
        (/\ i < j
         /\ returned[t][i].key = returned[t][j].key
         /\ returned[t][i].c = returned[t][j].c
         /\ SharedHere(returned[t][i].c, returned[t][i].key)
         /\ returned[t][i].res.ok /\ returned[t][j].res.ok)
        => returned[t][i].res.obj = returned[t][j].res.obj

\* C10: a waiter woken with "constructed" finds the key in the cache and
\* returns the instance the owner built and returned; a waiter woken with an
\* error returns that error.
C10_WaiterSeesOwnersOutcome ==
    [][\A t \in Threads :
        (At(t, "recv") /\ stack'[t] # stack[t]) =>
            LET response == Head(inbox[t]) IN
            IF response.type = "Constructed"
            THEN /\ Top(t).key \in DOMAIN objects[Top(t).c]
                 /\ ReturnsIn(t)
                 /\ ResultIn(t) = Ok(response.built)
            ELSE ReturnsIn(t) /\ ResultIn(t) = Err(response.err)]_vars

\* thread t is about to take the branch stop_construction_on_cyclic_dependency
OnOwnRecord(t) ==
    /\ At(t, "get_shared_object_from_self")
    /\ Top(t).key \in DOMAIN constructing[Top(t).c]
    /\ constructing[Top(t).c][Top(t).key].on_thread = t

\* the current call of t asks for a key that t is constructing as a shared
\* object of the same container further up its call chain
ReEnters(t) ==
    /\ Active(t)
    /\ \E j \in 1..(Len(stack[t]) - 1) :
        /\ stack[t][j].key = Top(t).key
        /\ stack[t][j].c = Top(t).c
        /\ stack[t][j].mode = "shared"

\* C4: a request that re-enters a shared key on the thread constructing it,
\* directly or through other keys, fails with CyclicDependency; when the
\* re-entry is detected every thread waiting on the record of the key is sent
\* that CyclicDependency, and a waiter returns the error it is sent.
C4_ReentryFailsAndWakesWaiters ==
    [][\A t \in Threads :
        /\ (ReEnters(t) /\ ReturnsIn(t)) =>
                ResultIn(t).err.kind = "CyclicDependency"
        /\ (OnOwnRecord(t) /\ stack'[t] # stack[t]) =>
                LET key == Top(t).key
                    waiters == Range(constructing[Top(t).c][key].waiters)
                IN  /\ ReturnsIn(t)
                    /\ ResultIn(t) = Err(CyclicDependency(key))
                    /\ \A w \in waiters :
                        /\ At(w, "recv")
                        /\ inbox'[w] = <<ErrorResponse(CyclicDependency(key))>>
        /\ (/\ At(t, "recv")
            /\ stack'[t] # stack[t]
            /\ Head(inbox[t]).err.kind = "CyclicDependency") =>
                (ReturnsIn(t) /\ ResultIn(t) = Err(Head(inbox[t]).err))]_vars

\* a thread that waited on S while its owner re-entered S through the Owned
\* key O has been sent CyclicDependency
C4_Witness ==
    /\ scn = "reenter"
    /\ \E w \in Threads :
        /\ At(w, "recv")
        /\ Top(w).key = "S"
        /\ inbox[w] = <<ErrorResponse(CyclicDependency("S"))>>

\* C9: when the provider of a shared key of the container fails, the caller
\* gets the provider's error, the cache is unchanged, no in-progress record of
\* the key remains, and a request that then finds no record calls the provider
\* again.
C9_FailureLeavesNoTrace ==
    [][\A t \in Threads :
        /\ (/\ At(t, "provide")
            /\ Top(t).mode = "shared"
            /\ ReturnsIn(t)
            /\ ~ResultIn(t).ok) =>
                /\ ResultIn(t) \in ProviderOutcomes(Top(t))
                /\ objects' = objects
                /\ Top(t).key \notin DOMAIN constructing'[Top(t).c]
        /\ (/\ At(t, "get_shared_object_from_self")
            /\ stack'[t] # stack[t]
            /\ Top(t).key \notin DOMAIN constructing[Top(t).c]) =>
                /\ invoked'[Top(t).c][Top(t).key] = invoked[Top(t).c][Top(t).key] + 1
                /\ At(t, "provide")']_vars

\* a thread whose request for K failed in K's provider asked again and got K
C9_Witness ==
    /\ scn = "fail"
    /\ \E t \in Threads :
        /\ Len(returned[t]) = 2
        /\ returned[t][1].key = "K"
        /\ returned[t][1].res = Err(ObjectConstruction("K"))
        /\ returned[t][2].key = "K"
        /\ returned[t][2].res.ok

\* thread t ends a shared construction in this step: its provider returns to
\* construct_shared_object, or it stops on the record it inserted itself
CompletesShared(t) ==
    /\ \/ At(t, "provide") /\ Top(t).mode = "shared"
       \/ OnOwnRecord(t)
    /\ ReturnsIn(t)

\* the threads registered on the record of key in container c
WaitersOf(c, key) ==
    IF key \in DOMAIN constructing[c]
    THEN Range(constructing[c][key].waiters)
    ELSE {}

\* some get_object call is active on container c
ActiveOn(c) ==
    \E t \in Threads : \E i \in DOMAIN stack[t] : stack[t][i].c = c

\* thread w has been sent a response and has not yet taken it
Woken(w) == At(w, "recv") /\ inbox[w] # << >>

\* thread w is past the recv of its call: the call has returned
Resumed(w) == ~At(w, "recv") /\ ~At(w, "unreachable_object")

\* C11: when a shared construction ends (the provider succeeded, the provider
\* failed, or the thread re-entered its own record) the record of the key is
\* gone and every waiter registered on it has been sent the outcome; a waiter
\* that has been sent a response resumes; and a container on which no
\* resolution call is active has an empty in-progress table.
C11_RecordRemovedWaitersResume ==
    /\ [][\A t \in Threads :
            CompletesShared(t) =>
                LET c == Top(t).c
                    key == Top(t).key
                IN  /\ key \notin DOMAIN constructing'[c]
                    /\ \A w \in WaitersOf(c, key) :
                        /\ At(w, "recv") /\ Top(w).c = c /\ Top(w).key = key
                        /\ inbox[w] = << >>
                        /\ Len(inbox'[w]) = 1
                        /\ inbox'[w][1].type =
                              (IF ResultIn(t).ok THEN "Constructed" ELSE "Error")
                        /\ inbox'[w][1].err = ResultIn(t).err]_vars
    /\ \A w \in Threads : Woken(w) ~> Resumed(w)
    /\ [](\A c \in Containers : ~ActiveOn(c) => DOMAIN constructing[c] = {})

\* two threads that waited on the record of K have both been sent the outcome
\* of its construction, and the record is gone
C11_Witness ==
    /\ scn = "race"
    /\ "K" \notin DOMAIN constructing["root"]
    /\ \E w1, w2 \in Threads : w1 # w2 /\ Woken(w1) /\ Woken(w2)

\* C12: a request for a key without registry entry, on the root or on a child
\* container, from the application or from a provider, returns NotFound for
\* that key in one step that ends the call, and neither entering the call nor
\* that step changes the cache or the in-progress table of any container.
C12_UnregisteredKeyNotFound ==
    /\ [][\A t \in Threads :
            /\ (/\ At(t, "get_object")
                /\ Top(t).key \notin DOMAIN providers
                /\ stack'[t] # stack[t]) =>
                    /\ ReturnsIn(t)
                    /\ ResultIn(t) = Err([kind |-> "NotFound", key |-> Top(t).key])
                    /\ objects' = objects
                    /\ constructing' = constructing
            /\ (/\ Len(stack'[t]) = Len(stack[t]) + 1
                /\ Last(stack'[t]).key \notin DOMAIN providers) =>
                    /\ At(t, "get_object")'
                    /\ objects' = objects
                    /\ constructing' = constructing]_vars
    /\ [](\A r \in Results :
            r.key \notin DOMAIN providers =>
                r.res = Err([kind |-> "NotFound", key |-> r.key]))

\* Q, which nobody registered, was requested on the root and on a child, and
\* the provider of A was refused Q
C12_Witness ==
    /\ scn = "missing"
    /\ \E r \in Results : r.c = "root" /\ r.key = "Q"
    /\ \E r \in Results : r.c = "s1" /\ r.key = "Q"
    /\ \E r \in Results : r.key = "A" /\ r.res.err.kind = "NotFound"

\* key is registered as Shared with a scope strictly within that of container c
NarrowHere(c, key) ==
    /\ c \in DOMAIN tree
    /\ key \in DOMAIN providers
    /\ providers[key].kind = "Shared"
    /\ within(providers[key].scope, tree[c].scope)
    /\ providers[key].scope # tree[c].scope

\* the completed requests, each with the thread and its position
Completions ==
    {p \in Threads \X (1..MaxRequests) : p[2] \in DOMAIN returned[p[1]]}

ResultOf(p) == returned[p[1]][p[2]]

OwnedKey(key) == key \in DOMAIN providers /\ providers[key].kind = "Owned"

Registered(key) == ProviderMap_has(configurer.providers, key)

EntryOf(key) == ProviderMap_get(configurer.providers, key)

\* the KeyDuplicated errors among errors
Duplicates(errors) == {i \in DOMAIN errors : errors[i].kind = "KeyDuplicated"}

\* C15: a registration, owned or shared, under a registered key leaves the
\* registry as it is and records one KeyDuplicated for the key; a registration
\* under a free key is accepted, whatever errors were recorded before, and
\* changes no other entry; an entry is never replaced; so every registration
\* either added a key or recorded a KeyDuplicated, and finish returns all of
\* them.
C15_DuplicateKeepsFirst ==
    /\ [][setup'.calls = setup.calls + 1 =>
            \E key \in ConfigKeys :
                \/ /\ Registered(key)
                   /\ configurer'.providers = configurer.providers
                   /\ configurer'.errors =
                        Append(configurer.errors,
                               [kind |-> "KeyDuplicated", key |-> key, module |-> 0])
                \/ /\ ~Registered(key)
                   /\ Registered(key)'
                   /\ EntryOf(key)'.provider = NextProvider
                   /\ configurer'.errors = configurer.errors
                   /\ \A other \in ConfigKeys \ {key} :
                        Registered(other)' = Registered(other)]_vars
    /\ [][\A key \in ConfigKeys :
            Registered(key) => (Registered(key)' /\ EntryOf(key)' = EntryOf(key))]_vars
    /\ [](setup.calls = Cardinality({key \in ConfigKeys : Registered(key)})
                          + Cardinality(Duplicates(configurer.errors)))
    /\ []((setup.returned /\ Duplicates(configurer.errors) # {}) =>
            (~setup.result.ok /\ setup.result.errors = configurer.errors))

\* finish reported the one conflict: a key registered as owned was registered
\* again as shared, and another key was registered after that
C15_Witness ==
    /\ setup.returned
    /\ Len(setup.result.errors) = 1
    /\ setup.result.errors[1].kind = "KeyDuplicated"
    /\ \E key \in ConfigKeys :
        /\ setup.result.errors[1].key = key
        /\ Registered(key)
        /\ EntryOf(key).kind = "Owned"
        /\ EntryOf(key).provider.call = 1
    /\ \E other \in ConfigKeys : Registered(other) /\ EntryOf(other).provider.call = 3

\* C16: finish returns the registry when no error was recorded, and
\* otherwise all recorded errors in the order recorded (errors are only ever
\* appended); the Err of a module's configure is recorded for that module and
\* the next module is set up all the same: when finish is called every module
\* has been set up.
C16_FinishReportsAllErrors ==
    /\ [][(setup'.returned /\ ~setup.returned) =>
            setup'.result =
                IF configurer.errors = << >>
                THEN [ok |-> TRUE, providers |-> configurer.providers, errors |-> << >>]
                ELSE [ok |-> FALSE, providers |-> << >>, errors |-> configurer.errors]]_vars
    /\ [][/\ Len(configurer'.errors) \in {Len(configurer.errors), Len(configurer.errors) + 1}
          /\ SubSeq(configurer'.errors, 1, Len(configurer.errors)) = configurer.errors]_vars
    /\ [][setup'.module # setup.module =>
            /\ setup'.module = setup.module + 1
            /\ configurer'.providers = configurer.providers
            /\ \/ configurer'.errors = configurer.errors
               \/ configurer'.errors =
                    Append(configurer.errors,
                           [kind |-> "ModuleInner", key |-> "", module |-> setup.module])]_vars
    /\ [](setup.returned => setup.module = setup.n + 1)

\* the first module failed, the second registered a key and then a duplicate:
\* finish returned both errors, the module's first
C16_Witness ==
    /\ setup.returned
    /\ ~setup.result.ok
    /\ Len(setup.result.errors) = 2
    /\ setup.result.errors[1] = ModuleInner(1)
    /\ setup.result.errors[2].kind = "KeyDuplicated"
    /\ \E key \in ConfigKeys : Registered(key) /\ EntryOf(key).provider.module = 2

\* the pattern of the query admits the key: the key has the target type and,
\* for a KeyTypePattern, the qualifier type of the pattern
Admits(pattern, key) ==
    /\ key.target = pattern.target
    /\ pattern.pattern = "KeyTypePattern" => key.qualifier_type = pattern.qualifier

\* the listed keys that the pattern of the query admits, in their order
MatchedKeys ==
    SelectSeq(collector.keys, LAMBDA k : Admits(collector.query.pattern, k))

\* the number of elements of the collection returned
SizeOf(collection) ==
    IF collector.query.shape \in SetShapes
    THEN Cardinality(collection)
    ELSE Cardinality(DOMAIN collection)

\* C17: a query whose pattern admits none of the listed keys returns
\* EmptyCollection, whatever the shape, and no query returns Ok with a
\* collection without elements.
C17_NoMatchIsEmptyCollection ==
    collector.done =>
        /\ MatchedKeys = << >> =>
                /\ ~collector.result.ok
                /\ collector.result.err.kind = "EmptyCollection"
                /\ collector.calls = << >>
        /\ collector.result.ok => SizeOf(collector.result.collection) > 0

\* a map keyed by names was asked for while the injector lists only the
\* unqualified key of the type and a key of another type
C17_Witness ==
    /\ collector.done
    /\ collector.query = [shape |-> "HashMap", pattern |-> KeyTypePattern("i32", "str")]
    /\ collector.keys = <<key_of("i32"), key_of("str")>>
    /\ collector.result.err.kind = "EmptyCollection"

\* every admitted key resolves, and there is one at least
AllResolve ==
    /\ MatchedKeys # << >>
    /\ \A i \in DOMAIN MatchedKeys : collector.injector[MatchedKeys[i]].ok

ObjectOf(key) == collector.injector[key].obj

\* the key of a map entry: the qualifier itself in a map with a typed key,
\* the qualifier with its type in a map keyed by Box<dyn Qualifier>
FiledUnder(key) ==
    IF collector.query.pattern.pattern = "KeyTypePattern"
    THEN key.qualifier
    ELSE [qualifier_type |-> key.qualifier_type, qualifier |-> key.qualifier]

\* dyn_get was called once for every admitted key and for no other key, and
\* the collection holds the objects returned: in the order of the keys for
\* the sequences, under the qualifier of each key for the maps
HoldsTheObjects ==
    /\ collector.result.ok
    /\ collector.calls = MatchedKeys
    /\ LET collection == collector.result.collection
           shape == collector.query.shape
       IN  CASE shape \in SequenceShapes ->
                    collection = [i \in DOMAIN MatchedKeys |-> ObjectOf(MatchedKeys[i])]
             [] shape \in SetShapes ->
                    collection = {ObjectOf(MatchedKeys[i]) : i \in DOMAIN MatchedKeys}
             [] OTHER ->
                    /\ DOMAIN collection =
                            {FiledUnder(MatchedKeys[i]) : i \in DOMAIN MatchedKeys}
                    /\ \A i \in DOMAIN MatchedKeys :
                            collection[FiledUnder(MatchedKeys[i])] = ObjectOf(MatchedKeys[i])

\* C18: when every admitted key resolves, collect returns exactly one element
\* for every listed key of the target type that the pattern admits, each
\* obtained by one dyn_get of that key; maps are keyed by the qualifier; other
\* keys contribute nothing.
C18_OneElementPerKey ==
    (collector.done /\ AllResolve) =>
        /\ HoldsTheObjects
        /\ SizeOf(collector.result.collection) = Len(MatchedKeys)

\* C18, for the shapes as they are: the sequences and the maps have one
\* element for every admitted key; HashSet and BTreeSet hold the objects
\* obtained, and equal objects of different keys are one element.
C18_CollectsMatchedKeys ==
    (collector.done /\ AllResolve) =>
        /\ HoldsTheObjects
        /\ SizeOf(collector.result.collection) =
                IF collector.query.shape \in SetShapes
                THEN Cardinality({ObjectOf(MatchedKeys[i]) : i \in DOMAIN MatchedKeys})
                ELSE Len(MatchedKeys)

\* a map keyed by names holds the objects of the two named keys and nothing
\* for the unqualified key of the same type
C18_Witness ==
    /\ collector.done
    /\ collector.result.ok
    /\ collector.query = [shape |-> "HashMap", pattern |-> KeyTypePattern("i32", "str")]
    /\ Len(collector.keys) = 3
    /\ key_of("i32") \in Range(collector.keys)
    /\ DOMAIN collector.result.collection = {"1", "2"}

\* the number of containers from c up to the root
RECURSIVE DepthOf(_)
DepthOf(c) == IF tree[c].parent = NoContainer THEN 1 ELSE 1 + DepthOf(tree[c].parent)

\* C19: the root has scope SINGLETON and no parent; sub_container on a
\* container whose scope has no sub-scope returns None and changes nothing;
\* otherwise it returns a new container with the sub-scope of that scope, that
\* container as parent, its registry, an empty cache and an empty in-progress
\* table, and leaves every other container as it is; so every container but
\* the root has a parent of the next wider scope and no container is deeper
\* than there are scopes.
C19_TreeFollowsScopes ==
    /\ [](/\ tree["root"] = [parent |-> NoContainer, scope |-> SINGLETON,
                             providers |-> Registry]
          /\ \A c \in DOMAIN tree \ {"root"} :
                /\ tree[c].parent \in DOMAIN tree
                /\ tree[c].scope \in Scopes
                /\ super_scope(tree[c].scope) = tree[tree[c].parent].scope
                /\ tree[c].scope < tree[tree[c].parent].scope
                /\ tree[c].providers = tree[tree[c].parent].providers
          /\ \A c \in DOMAIN tree : DepthOf(c) <= Cardinality(Scopes))
    /\ [][Len(subs') = Len(subs) + 1 =>
            LET p == Last(subs').parent
                child == Last(subs').child
            IN  IF tree[p].scope = Request
                THEN /\ child = NoContainer
                     /\ UNCHANGED <<tree, objects, constructing>>
                ELSE /\ child \in Containers \ DOMAIN tree
                     /\ DOMAIN tree' = DOMAIN tree \cup {child}
                     /\ tree'[child].parent = p
                     /\ tree'[child].scope =
                            (IF tree[p].scope = Singleton THEN Session ELSE Request)
                     /\ tree'[child].providers = tree[p].providers
                     /\ DOMAIN objects'[child] = {}
                     /\ DOMAIN constructing'[child] = {}
                     /\ \A c \in DOMAIN tree :
                            /\ tree'[c] = tree[c]
                            /\ objects'[c] = objects[c]
                            /\ constructing'[c] = constructing[c]]_vars

\* a request container under a session container under the root; the session
\* container has S in its cache, the request container has an empty cache;
\* and sub_container on the request container returned None
C19_Witness ==
    /\ scn = "grow"
    /\ \E c \in DOMAIN tree :
        /\ tree[c].scope = Request
        /\ DepthOf(c) = 3
        /\ "S" \in DOMAIN objects[tree[c].parent]
        /\ DOMAIN objects[c] = {}
        /\ \E i \in DOMAIN subs : subs[i] = [parent |-> c, child |-> NoContainer]

\* C20: a shared key bound to the scope of two sibling containers and
\* requested on each: the request stays on the container asked, which calls
\* the provider itself and caches the instance it built; the siblings return
\* and cache different instances; and no step of a request changes the cache
\* or the in-progress table of a container other than the one it runs on, so
\* neither the other sibling's nor the parent's.
C20_CachesPerContainer ==
    /\ [](\A t \in Threads : \A i \in DOMAIN stack[t] :
            SharedHere(stack[t][i].from, stack[t][i].key) =>
                stack[t][i].c = stack[t][i].from)
    /\ [](\A c \in DOMAIN tree : \A key \in DOMAIN objects[c] :
            /\ objects[c][key].c = c
            /\ invoked[c][key] >= 1)
    /\ [](\A r1, r2 \in Results :
            (/\ SharedHere(r1.c, r1.key) /\ r1.res.ok
             /\ SharedHere(r2.c, r2.key) /\ r2.res.ok
             /\ r1.key = r2.key /\ r1.c # r2.c) =>
                /\ r1.res.obj # r2.res.obj
                /\ r1.res.obj.c = r1.c
                /\ r2.res.obj.c = r2.c)
    /\ [][\A t \in Threads :
            (Active(t) /\ stack'[t] # stack[t]) =>
                \A c \in Containers \ {Top(t).c} :
                    /\ objects'[c] = objects[c]
                    /\ constructing'[c] = constructing[c]]_vars

\* both session containers have built and cached S, each its own, both were
\* asked, and the root has cached nothing
C20_Witness ==
    /\ scn = "siblings"
    /\ "S" \in DOMAIN objects["s1"]
    /\ "S" \in DOMAIN objects["s2"]
    /\ objects["s1"]["S"] # objects["s2"]["S"]
    /\ DOMAIN objects["root"] = {}
    /\ \E r1, r2 \in Results : r1.c = "s1" /\ r2.c = "s2"

\* the container that a request for a key of scope s, made on c, ends on
RECURSIVE AncestorOfScope(_, _)
AncestorOfScope(c, s) ==
    IF tree[c].scope = s \/ tree[c].parent = NoContainer THEN c
    ELSE AncestorOfScope(tree[c].parent, s)

\* C21: every key in the cache of a container is registered as Shared with the
\* scope of that container, and the cached instance was built on it; an
\* instance returned for a shared key of a wider scope was built on the
\* ancestor of that scope; an instance returned for a shared key of a narrower
\* scope or for an Owned key was built outside every cache.
C21_CacheHoldsOwnScopeOnly ==
    /\ \A c \in DOMAIN tree : \A key \in DOMAIN objects[c] :
            /\ SharedHere(c, key)
            /\ objects[c][key].key = key
            /\ objects[c][key].c = c
    /\ \A c \in Containers \ DOMAIN tree : DOMAIN objects[c] = {}
    /\ \A r \in Results :
        (r.res.ok /\ r.key \in DOMAIN providers) =>
            IF /\ providers[r.key].kind = "Shared"
               /\ outlive(providers[r.key].scope, tree[r.c].scope)
            THEN /\ r.res.obj.c = AncestorOfScope(r.c, providers[r.key].scope)
                 /\ tree[r.res.obj.c].scope = providers[r.key].scope
            ELSE \A c \in DOMAIN tree : \A key \in DOMAIN objects[c] :
                    objects[c][key] # r.res.obj

\* a session container has cached S and the root has cached the singleton K
\* that S needs, requested through the session container
C21_Witness ==
    /\ scn = "forward"
    /\ "S" \in DOMAIN objects["s1"]
    /\ "K" \in DOMAIN objects["root"]
    /\ \E r \in Results : r.c = "s1" /\ r.key = "K" /\ r.res.ok

\* C22: in every container tree that new_root and new_sub build, a container
\* without parent has the scope SINGLETON, and a container whose scope is
\* strictly outlived by some scope (so that a shared key bound to that scope
\* is forwarded) has a parent in the tree; no call reaches the unreachable
\* branch of get_object_from_parent.
C22_ForwardOnlyWithParent ==
    /\ \A c \in DOMAIN tree :
        /\ tree[c].parent = NoContainer => tree[c].scope = SINGLETON
        /\ \A s \in Scopes :
            should_forward_request_to_parent(c, s) => tree[c].parent \in DOMAIN tree
    /\ \A t \in Threads : \A i \in DOMAIN stack[t] :
        /\ stack[t][i].pc # "unreachable_parent"
        /\ stack[t][i].c \in DOMAIN tree

\* a request container created by sub_container under a session container
\* was asked for S and the request was answered by its parent
C22_Witness ==
    /\ scn = "grow"
    /\ \E r \in Results :
        /\ tree[r.c].scope = Request
        /\ r.res.ok
        /\ r.res.obj.c = tree[r.c].parent

\* the provider invocation that builds object o is still running
BeingBuilt(o) ==
    \E t \in Threads : \E i \in DOMAIN stack[t] :
        /\ stack[t][i].pc = "provide"
        /\ NewObject(stack[t][i]) = o

\* thread t takes a step that answers its current call from the cache: the
\* hit of try_get_constructed_object, or the read after a Constructed response
ReadsCache(t) ==
    \/ At(t, "get_object") /\ try_get_constructed_object(Top(t).c, Top(t).key)
    \/ /\ At(t, "recv") /\ inbox[t] # << >>
       /\ Head(inbox[t]).type = "Constructed"
       /\ Top(t).key \in DOMAIN objects[Top(t).c]

\* C23: the cache of a container changes only in the step in which a provider
\* invoked for a shared construction on that container returns Ok, and the
\* entry written is the object that this provider call returned; a provider
\* call that returns Err writes nothing; so no cached object is one whose
\* provider call is still running, and what a thread obtains from the cache
\* is a cached, completely built object.
C23_CacheFilledAfterProviderOk ==
    /\ [][\A c \in DOMAIN tree : \A key \in Keys :
            (/\ key \in DOMAIN objects'[c]
             /\ key \in DOMAIN objects[c] => objects'[c][key] # objects[c][key]) =>
                \E t \in Threads :
                    /\ At(t, "provide") /\ Top(t).mode = "shared"
                    /\ Top(t).c = c /\ Top(t).key = key
                    /\ ProviderDone(Top(t))
                    /\ ReturnsIn(t)
                    /\ ResultIn(t) = Ok(objects'[c][key])
                    /\ objects'[c][key] = NewObject(Top(t))]_vars
    /\ [][\A t \in Threads :
            (At(t, "provide") /\ ReturnsIn(t) /\ ~ResultIn(t).ok) =>
                objects' = objects]_vars
    /\ [](\A c \in DOMAIN tree : \A key \in DOMAIN objects[c] :
            /\ ~BeingBuilt(objects[c][key])
            /\ objects[c][key].n \in 1..invoked[c][key])
    /\ [][\A t \in Threads :
            (ReadsCache(t) /\ stack'[t] # stack[t]) =>
                /\ ReturnsIn(t)
                /\ ResultIn(t) = Ok(objects[Top(t).c][Top(t).key])
                /\ ~BeingBuilt(ResultIn(t).obj)]_vars

\* the first provider call for K failed, a second one returned Ok and filled
\* the cache, and a request was then answered from the cache without a third
C23_Witness ==
    /\ scn = "fail"
    /\ \E r \in Results : r.key = "K" /\ r.res = Err(ObjectConstruction("K"))
    /\ "K" \in DOMAIN objects["root"]
    /\ objects["root"]["K"].n = 2
    /\ invoked["root"]["K"] = 2
    /\ Cardinality({p \in Completions : ResultOf(p).key = "K" /\ ResultOf(p).res.ok}) = 2

\* thread t has called a provider on behalf of container c and the provider
\* has not returned: the call is the current one and the provider is about to
\* ask for a dependency or to build its object, or it is waiting for the
\* answer to a request it made
InProvider(t, c) ==
    \E i \in DOMAIN stack[t] :
        /\ stack[t][i].pc = "provide"
        /\ stack[t][i].c = c
        /\ i = Len(stack[t]) =>
              ~(stack[t][i].mode = "shared" /\ ProviderDone(stack[t][i]))

\* thread t asks for a lock that it is not given
Blocked(t) ==
    /\ Wants(t) # "none"
    /\ ~InSection(t, Wants(t))
    /\ ~CanAcquire(Top(t).c, Wants(t))

\* C24: a thread holds the lock of a container only between the acquisition
\* at the start of a critical section of its current call on that container
\* and the end of that section; every step that calls a provider (shared,
\* unbounded shared or owned) leaves the calling thread without any lock; so a
\* thread that asks for the lock of a container in a request made by a
\* provider running on behalf of that container does not hold that lock
\* itself, and a thread that is not given a lock is kept out by threads
\* inside a critical section only, each of which can end it by its next step.
C24_ProviderRunsUnlocked ==
    /\ [](\A t \in Threads : \A c \in Containers :
            Holds(t, c) =>
                /\ Active(t) /\ Top(t).c = c
                /\ HoldsWrite(t, c) => Wants(t) = "write" /\ ~HoldsRead(t, c)
                /\ HoldsRead(t, c) => Wants(t) = "read"
                /\ \A d \in Containers \ {c} : ~Holds(t, d))
    /\ [][\A t \in Threads :
            (/\ Active(t)' /\ Top(t)'.pc = "provide"
             /\ stack'[t] # stack[t]
             /\ ~(Top(t)'.mode = "shared" /\ ProviderDone(Top(t))')) =>
                \A c \in Containers : ~Holds(t, c)']_vars
    /\ [](\A t \in Threads : Blocked(t) =>
            /\ ~Holds(t, Top(t).c)
            /\ \A h \in Threads :
                Holds(h, Top(t).c) => h # t /\ InSection(h, Wants(h)))

\* the provider of S, called for the root by one thread, has asked the root
\* for a dependency and the thread holds the read lock of the root for that
\* request, while another thread reads the cache of the root under the same
\* lock
C24_Witness ==
    /\ scn = "reenter"
    /\ \E t1, t2 \in Threads :
        /\ t1 # t2
        /\ Len(stack[t1]) > 1
        /\ stack[t1][1].pc = "provide" /\ stack[t1][1].mode = "shared"
        /\ stack[t1][1].c = "root"
        /\ InProvider(t1, "root")
        /\ HoldsRead(t1, "root")
        /\ HoldsRead(t2, "root")

\* the error with which the current call of thread t ends, where it ends
\* with one: produced by the call itself or taken over from elsewhere
ErrorOut(t) ==
    LET f == Top(t) IN
    CASE f.pc = "get_object" ->
            IF ~try_get_provider_by_key(f.key) THEN NotFound(f.key)
            ELSE CyclicDependency(f.key)
      [] f.pc = "get_shared_object_from_self" -> CyclicDependency(f.key)
      [] f.pc = "recv" -> Head(inbox[t]).err
      [] f.pc = "provide" ->
            IF f.err # NoErr THEN f.err ELSE ObjectConstruction(f.key)
      [] OTHER -> NoErr

\* the keys on the way from a request for key to its dependencies
Reach(key) == {key} \cup NeedsOf(key)

\* C25: a call that ends with an error hands exactly that error to its caller:
\* a provider that was handed the error of a dependency (NotFound,
\* CyclicDependency, ObjectConstruction of the dependency) returns it with its
\* kind and key, to the container that called it, which sends the same error
\* to every waiter of the record and returns it; a waiter returns the error
\* it was sent; ObjectConstruction with the key under construction is
\* returned only by a provider that got all its dependencies and failed itself;
\* so the error of a top-level request names a key on the way from the
\* requested key: an unregistered one for NotFound, one that needs itself for
\* CyclicDependency, one with a failing provider for ObjectConstruction.
C25_ErrorsPropagateUnchanged ==
    /\ [][\A t \in Threads :
            (ReturnsIn(t) /\ ~ResultIn(t).ok) =>
                /\ ResultIn(t) = Err(ErrorOut(t))
                /\ Len(stack[t]) > 1 =>
                      /\ stack[t][Len(stack[t]) - 1].pc = "provide"
                      /\ stack[t][Len(stack[t]) - 1].err = NoErr
                      /\ Top(t)'.err = ErrorOut(t)
                /\ Len(stack[t]) = 1 =>
                      Last(returned'[t]) =
                          [c |-> stack[t][1].from, key |-> Top(t).key,
                           res |-> Err(ErrorOut(t))]
                /\ CompletesShared(t) =>
                      \A w \in WaitersOf(Top(t).c, Top(t).key) :
                          Last(inbox'[w]) = ErrorResponse(ErrorOut(t))
                /\ (At(t, "provide") /\ Top(t).err = NoErr) =>
                      /\ providers[Top(t).key].fallible
                      /\ Top(t).di > Len(providers[Top(t).key].deps)]_vars
    /\ [](\A r \in Results :
            ~r.res.ok =>
                /\ r.res.err.key \in Reach(r.key)
                /\ CASE r.res.err.kind = "NotFound" ->
                            r.res.err.key \notin DOMAIN providers
                     [] r.res.err.kind = "CyclicDependency" ->
                            NeedsItself(r.res.err.key)
                     [] r.res.err.kind = "ObjectConstruction" ->
                            /\ r.res.err.key \in DOMAIN providers
                            /\ providers[r.res.err.key].fallible
                     [] OTHER -> FALSE)

\* the provider of K failed while A was being built for one thread and
\* another thread waited for A: both requests for A ended with
\* ObjectConstruction of K
C25_Witness ==
    /\ scn = "fail"
    /\ invoked["root"]["A"] = 1
    /\ Cardinality({p \in Completions :
            /\ ResultOf(p).key = "A"
            /\ ResultOf(p).res = Err(ObjectConstruction("K"))}) = 2

\* the walk so far applied sub_scope only
AllSub == \A i \in DOMAIN walk.moves : walk.moves[i] = "sub"

\* C26: for WebScope and SingletonScope, and scopes a and b of one of them:
\* a.outlive(b) is a >= b and a.within(b) is a <= b on the discriminants;
\* SINGLETON outlives and MIN is within every scope; sub_scope(a) = b exactly
\* when super_scope(b) = a, also along every sequence of applications;
\* sub_scope returns None exactly on MIN and super_scope exactly on
\* SINGLETON; and sub_scope applied repeatedly from SINGLETON descends
\* strictly, is at MIN after as many steps as there are scopes below
\* SINGLETON, and returns None there.
C26_ScopeAlgebra ==
    LET S == walk.scope_type
        a == walk.a
        b == walk.b
        n == Cardinality(ValuesOf(S))
    IN  /\ walk.compared =>
            /\ walk.outlive <=> a >= b
            /\ walk.within <=> a <= b
        /\ outlive(SINGLETON_of(S), a) /\ within(MIN_of(S), a)
        /\ \A s \in ValuesOf(S) : outlive(s, a) /\ within(s, a) => s = a
        /\ (sub_scope_of(S, a) = b) <=> (super_scope_of(S, b) = a)
        /\ sub_scope_of(S, a) = NoScope <=> a = MIN_of(S)
        /\ super_scope_of(S, a) = NoScope <=> a = SINGLETON_of(S)
        /\ sub_scope_of(S, a) \in ValuesOf(S) \cup {NoScope}
        /\ super_scope_of(S, a) \in ValuesOf(S) \cup {NoScope}
        /\ \A i \in DOMAIN walk.moves :
            walk.path[i + 1] # NoScope =>
                IF walk.moves[i] = "sub"
                THEN /\ super_scope_of(S, walk.path[i + 1]) = walk.path[i]
                     /\ walk.path[i + 1] < walk.path[i]
                ELSE /\ sub_scope_of(S, walk.path[i + 1]) = walk.path[i]
                     /\ walk.path[i + 1] > walk.path[i]
        /\ (AllSub /\ a = SINGLETON_of(S)) =>
            /\ Len(walk.path) <= n + 1
            /\ Len(walk.path) >= n => walk.path[n] = MIN_of(S)
            /\ Len(walk.path) = n + 1 => Last(walk.path) = NoScope

\* sub_scope was applied from Singleton down to Request and returned None
\* there, and Singleton was compared with Request
C26_Witness ==
    /\ walk.scope_type = "WebScope"
    /\ walk.a = Singleton /\ walk.b = Request
    /\ walk.compared /\ walk.outlive /\ ~walk.within
    /\ walk.path = <<Singleton, Session, Request, NoScope>>

\* thread t is in a critical section that reads and writes the in-progress
\* table only: it inserts a record, registers a waiter, or removes the record
\* of a key that needs itself
UpdatesTableOnly(t) == InSection(t, "write") /\ At(t, "get_shared_object_from_self")

\* thread t is about to read the cache of container c
ReadsCacheOf(t, c) ==
    /\ Wants(t) = "read"
    /\ Top(t).c = c
    /\ ~Holds(t, c)

\* C27: while a thread is in a critical section that only updates the
\* in-progress table of a container, another thread that is about to read
\* the cache of that container is given the lock it asks for.
C27_TableUpdateAdmitsCacheRead ==
    \A t1, t2 \in Threads : \A c \in Containers :
        (/\ t1 # t2
         /\ UpdatesTableOnly(t1) /\ Top(t1).c = c
         /\ ReadsCacheOf(t2, c)) =>
            CanAcquire(c, "read")

\* thread t is inside the provider of key, called by construct_shared_object
\* of container c: the provider has been called and has not returned
ProvidingShared(t, c, key) ==
    \E i \in DOMAIN stack[t] :
        /\ stack[t][i].pc = "provide"
        /\ stack[t][i].mode = "shared"
        /\ stack[t][i].c = c
        /\ stack[t][i].key = key

\* C28: no two threads are at the same time inside the provider of one
\* shared key called by construct_shared_object of one container.
C28_OneSharedProviderAtATime ==
    \A t1, t2 \in Threads : \A c \in Containers : \A key \in Keys :
        (ProvidingShared(t1, c, key) /\ ProvidingShared(t2, c, key)) => t1 = t2

\* C29: a step in which a thread ends a shared construction of key on
\* container c (its provider returns, or it stops on a record of the thread)
\* removes no record of key that another thread inserted, and sends nothing
\* to the waiters of such a record.
C29_RemovesOwnRecordOnly ==
    [][\A t \in Threads :
        (/\ CompletesShared(t)
         /\ Top(t).key \in DOMAIN constructing[Top(t).c]
         /\ constructing[Top(t).c][Top(t).key].on_thread # t) =>
            /\ constructing'[Top(t).c] = constructing[Top(t).c]
            /\ \A w \in WaitersOf(Top(t).c, Top(t).key) : inbox'[w] = inbox[w]]_vars

\* C30: no step removes a cache entry or replaces it by another instance (so
\* that every request answered from the cache of a container returns the
\* instance that was cached first for the key).
C30_CacheWriteOnce ==
    [][\A c \in Containers : \A key \in DOMAIN objects[c] :
            /\ key \in DOMAIN objects'[c]
            /\ objects'[c][key] = objects[c][key]]_vars

\* C31: a call that returns CyclicDependency, to the application or to a
\* provider, on any container of the tree and whatever the other threads do,
\* names a key that needs itself in the registry and that lies on the way
\* from the key the call was made for; so a request for a key from which no
\* cycle can be reached never returns CyclicDependency.
C31_NoFalseCycle ==
    /\ [][\A t \in Threads :
            (ReturnsIn(t) /\ ResultIn(t).err.kind = "CyclicDependency") =>
                /\ NeedsItself(ResultIn(t).err.key)
                /\ ResultIn(t).err.key \in Reach(Top(t).key)]_vars
    /\ [](\A r \in Results :
            CycleFree(r.key) => r.res.err.kind # "CyclicDependency")

\* S needs itself through O: one thread built S and re-entered it, the other
\* waited on the record and was sent the error; both requests for S ended
\* with CyclicDependency of S after a single call of the provider
C31_Witness ==
    /\ scn = "reenter"
    /\ invoked["root"]["S"] = 1
    /\ \A t \in {"t1", "t2"} :
        /\ Len(returned[t]) = 1
        /\ returned[t][1].key = "S"
        /\ returned[t][1].res = Err(CyclicDependency("S"))

\* the keys of the calls that enclose the current call of thread t
EarlierInChain(t) == {stack[t][i].key : i \in 1..(Len(stack[t]) - 1)}

\* the links strictly before the current link of a chain
AncestorKeys(trace) == {trace[i] : i \in 1..(Len(trace) - 1)}

\* C32: previous_exist_key(k) on the chain of any call is true exactly when k
\* is the key of a link strictly before the current one; a top-level dyn_get
\* starts a chain of one link, the requested key; a dependency request makes
\* a chain one link longer whose previous link is the chain of the requesting
\* provider and whose current link is the requested key; and a request for an
\* Owned key returns CyclicDependency of that key without calling the
\* provider exactly when the key is the key of an enclosing call of the same
\* chain, and calls the provider otherwise.
C32_TraceFindsEarlierKeys ==
    /\ [](\A t \in Threads : \A i \in 1..Len(stack[t]) :
            LET trace == stack[t][i].context.trace IN
                /\ trace = TraceOf(SubSeq(stack[t], 1, i))
                /\ \A k \in Keys :
                        previous_exist_key(trace, k) <=> k \in AncestorKeys(trace))
    /\ [][\A t \in Threads :
            /\ (~Active(t) /\ Active(t)') =>
                    /\ Len(Top(t)'.context.trace) = 1
                    /\ InjectionTrace_previous(Top(t)'.context.trace) = << >>
                    /\ InjectionTrace_key(Top(t)'.context.trace) = Top(t)'.key
            /\ (Active(t) /\ Len(stack'[t]) = Len(stack[t]) + 1) =>
                    /\ Len(Top(t)'.context.trace) = Len(Top(t).context.trace) + 1
                    /\ InjectionTrace_previous(Top(t)'.context.trace) =
                            Top(t).context.trace
                    /\ InjectionTrace_key(Top(t)'.context.trace) =
                            providers[Top(t).key].deps[Top(t).di]
            /\ (/\ At(t, "get_object")
                /\ OwnedKey(Top(t).key)
                /\ stack'[t] # stack[t]) =>
                    IF Top(t).key \in EarlierInChain(t)
                    THEN /\ ReturnsIn(t)
                         /\ ResultIn(t) = Err(CyclicDependency(Top(t).key))
                         /\ invoked' = invoked
                    ELSE /\ Len(stack'[t]) = Len(stack[t])
                         /\ At(t, "provide")'
                         /\ invoked'[Top(t).c][Top(t).key] =
                                invoked[Top(t).c][Top(t).key] + 1]_vars

\* O needs P needs O: the second request for O was made on the chain O, P, O
\* and ended with CyclicDependency, which the provider of P now holds; and in
\* the other chain A asked for B a second time, on the chain A, B, where B is
\* no ancestor of itself
C32_Witness ==
    /\ scn = "owned"
    /\ \E t \in Threads :
        /\ Len(stack[t]) = 2
        /\ Top(t).context.trace = <<"O", "P">>
        /\ Top(t).err = CyclicDependency("O")
    /\ \E t \in Threads :
        /\ Len(stack[t]) = 2
        /\ Top(t).context.trace = <<"A", "B">>
        /\ stack[t][1].di = 2

\* the flat map from Key to entry that a sequence of insertions makes: the
\* entry inserted last for the key, if any
FlatGet(log, key) ==
    LET at == {i \in DOMAIN log : log[i].key = key}
    IN  IF at = {} THEN None
        ELSE Some(log[CHOOSE i \in at : \A j \in at : j <= i])

\* C33: after any sequence of insert and insert_shared, ProviderMap answers
\* get(key) as a flat map from Key to entry would: with the entry inserted
\* last for an equal key, and with None for a key never inserted, also when
\* another key of the same target type is registered; insert and
\* insert_shared return None when the key was absent and otherwise replace
\* the entry and return the one that was there.
C33_ProviderMapIsFlatMap ==
    /\ [](\A key \in MapKeys :
            ProviderMap_get_option(registry.map, key) = FlatGet(registry.log, key))
    /\ [][/\ registry'.log # registry.log =>
                /\ registry'.returned =
                        FlatGet(registry.log, Last(registry'.log).key)
                /\ ProviderMap_get_option(registry'.map, Last(registry'.log).key) =
                        Some(Last(registry'.log))
          /\ (registry'.log = registry.log /\ registry' # registry) =>
                /\ registry'.asked
                /\ registry'.got.entry = FlatGet(registry.log, registry'.got.key)
                /\ registry'.map = registry.map]_vars

\* the slot of i32 holds two keys; the shared entry of the first key was
\* replaced by an owned one, and the insertion returned the shared entry;
\* a third key of the type, never inserted, was looked up and not found
C33_Witness ==
    /\ registry.log = <<new_shared(key_of("i32"), "p1", SingletonScope),
                       new_owned(key_named("i32", "a"), "p1"),
                       new_owned(key_of("i32"), "p2")>>
    /\ registry.map["i32"].kind = "Map"
    /\ registry.returned = Some(new_shared(key_of("i32"), "p1", SingletonScope))
    /\ registry.asked
    /\ registry.got = [key |-> key_named("i32", "b"), entry |-> None]

\* the places among the admitted keys whose dyn_get returns an error
Failing == {i \in DOMAIN MatchedKeys : ~collector.injector[MatchedKeys[i]].ok}

FirstFailing == CHOOSE i \in Failing : \A j \in Failing : i <= j

\* C34: when dyn_get fails for one of the admitted keys, collect returns the
\* error of the first such key in the order of the listed keys: not Ok with
\* the objects of the other keys and not EmptyCollection; dyn_get was called
\* for the admitted keys up to that one and for none after it.
C34_NoPartialCollection ==
    (collector.done /\ Failing # {}) =>
        /\ ~collector.result.ok
        /\ collector.result.err = collector.injector[MatchedKeys[FirstFailing]].err
        /\ collector.result.err.kind # "EmptyCollection"
        /\ collector.result = NotCollected(collector.result.err)
        /\ collector.calls = SubSeq(MatchedKeys, 1, FirstFailing)

\* three keys of the type were listed: the first resolved, the second and the
\* third did not; the error of the second was returned and the third was not
\* asked for
C34_Witness ==
    /\ collector.done
    /\ collector.query = [shape |-> "Vec", pattern |-> AnyPattern("i32")]
    /\ collector.keys = <<key_named("i32", "1"), key_of("i32"), key_named("i32", "2")>>
    /\ collector.injector[key_named("i32", "1")].ok
    /\ collector.result = NotCollected(NotFound(key_of("i32")))
    /\ ~collector.injector[key_named("i32", "2")].ok
    /\ collector.calls = <<key_named("i32", "1"), key_of("i32")>>

\* container c cannot hold key: the key is Owned, or Shared with a scope
\* strictly within the scope of c
TooShortFor(c, key) ==
    /\ key \in DOMAIN providers
    /\ \/ providers[key].kind = "Owned"
       \/ /\ providers[key].kind = "Shared"
          /\ within(providers[key].scope, tree[c].scope)
          /\ providers[key].scope # tree[c].scope

\* C35: in the SharedContext protocol a request, from the application or
\* from a provider, for an Owned key or for a shared key whose scope is
\* strictly within the scope of the context returns ShortLifetime of that
\* key in the get_object step itself: no provider is called and no cache and
\* no in-progress table changes; so no provider of such a key is ever called
\* on behalf of that context and the key is never cached or in progress there.
C35_ShortLifetimeRejected ==
    /\ [][\A t \in Threads :
            (/\ At(t, "get_object")
             /\ TooShortFor(Top(t).c, Top(t).key)
             /\ stack'[t] # stack[t]) =>
                /\ ReturnsIn(t)
                /\ ResultIn(t) = Err(ShortLifetime(Top(t).key))
                /\ invoked' = invoked
                /\ objects' = objects
                /\ constructing' = constructing]_vars
    /\ [](\A c \in DOMAIN tree : \A key \in Keys :
            TooShortFor(c, key) =>
                /\ invoked[c][key] = 0
                /\ key \notin DOMAIN objects[c]
                /\ key \notin DOMAIN constructing[c])
    /\ [](\A r \in Results :
            TooShortFor(r.c, r.key) => r.res = Err(ShortLifetime(r.key)))

\* S lives in a session: the session container s1 built and cached it, the
\* root rejected a request for it and a request for the Owned key O, and the
\* singleton K, asked of s1 and built on the root, failed because its
\* provider asked the root for S
C35_Witness ==
    /\ scn = "short"
    /\ "S" \in DOMAIN objects["s1"]
    /\ \E r \in Results : r.c = "root" /\ r.key = "S" /\ r.res = Err(ShortLifetime("S"))
    /\ \E r \in Results : r.c = "s1" /\ r.key = "K" /\ ~r.res.ok
    /\ invoked["root"]["K"] > 0
    /\ invoked["root"]["S"] = 0

\* C36: on one LocalContext used by several threads, a request for an Owned
\* key from which no key that needs itself can be reached never returns
\* CyclicDependency, whatever the other threads request at the same time;
\* and a key is in the constructing set only while a call for it is active.
C36_LocalNoFalseCycle ==
    /\ \A r \in Results :
            (OwnedKey(r.key) /\ CycleFree(r.key)) =>
                r.res.err.kind # "CyclicDependency"
    /\ \A key \in local.constructing :
            \E t \in Threads : \E i \in DOMAIN stack[t] :
                stack[t][i].key = key /\ stack[t][i].pc = "local_provide"

\* C37: a dyn_get of the CoreContainer answers CyclicDependency of its key
\* only when a call for that key encloses it on the call chain, whatever
\* requests were made before and however they ended; and when no request is
\* active, no entry of the registry is TemporaryMoved and the constructing
\* set is empty.
C37_CoreCyclesAndCleanup ==
    /\ [][(/\ At(Owner, "core_dyn_get")
           /\ ReturnsIn(Owner)
           /\ ResultIn(Owner).err.kind = "CyclicDependency") =>
                Top(Owner).key \in EarlierInChain(Owner)]_vars
    /\ [](~Active(Owner) =>
            /\ core.constructing = {}
            /\ \A k \in DOMAIN core.provider_map :
                    core.provider_map[k].kind # "TemporaryMoved")

\* the records that hold a Sender of thread w
RegistrationsOf(w) ==
    {ck \in Containers \X Keys :
        /\ ck[2] \in DOMAIN constructing[ck[1]]
        /\ \E i \in DOMAIN constructing[ck[1]][ck[2]].waiters :
                constructing[ck[1]][ck[2]].waiters[i] = w}

\* the Sender of thread w was dropped before anything was sent: recv on the
\* Receiver of w returns Err
ChannelClosed(w) ==
    /\ At(w, "recv")
    /\ inbox[w] = << >>
    /\ RegistrationsOf(w) = {}

\* the record of key on container c is the one it was, with the waiters it
\* had and perhaps more
RecordKept(c, key) ==
    /\ key \in DOMAIN constructing'[c]
    /\ constructing'[c][key].on_thread = constructing[c][key].on_thread
    /\ Len(constructing'[c][key].waiters) >= Len(constructing[c][key].waiters)
    /\ SubSeq(constructing'[c][key].waiters, 1, Len(constructing[c][key].waiters)) =
            constructing[c][key].waiters

\* C38: a thread blocked in recv either has its Sender in exactly one record,
\* the record of the key it asked for, and has been sent nothing, or has its
\* Sender in no record and has been sent exactly one response; so its channel
\* is never closed without a response.  A thread that is not in recv has no
\* Sender in any record and no response pending.  A record that is removed
\* or replaced sends one response to every waiter it holds in that step.
\* A thread is registered only in its get_shared_object_from_self step, on
\* the record that the table holds for its key in that step, and then blocks.
C38_EveryWaiterAnsweredOnce ==
    /\ [](\A w \in Threads :
            /\ ~ChannelClosed(w)
            /\ IF At(w, "recv")
               THEN /\ Cardinality(RegistrationsOf(w)) + Len(inbox[w]) = 1
                    /\ RegistrationsOf(w) \subseteq {<<Top(w).c, Top(w).key>>}
                    /\ \A ck \in RegistrationsOf(w) :
                        Cardinality({i \in DOMAIN constructing[ck[1]][ck[2]].waiters :
                            constructing[ck[1]][ck[2]].waiters[i] = w}) = 1
               ELSE RegistrationsOf(w) = {} /\ inbox[w] = << >>)
    /\ [][\A c \in DOMAIN tree : \A key \in DOMAIN constructing[c] :
            ~RecordKept(c, key) =>
                \A w \in WaitersOf(c, key) :
                    /\ Len(inbox'[w]) = Len(inbox[w]) + 1
                    /\ <<c, key>> \notin RegistrationsOf(w)']_vars
    /\ [][\A w \in Threads : \A ck \in RegistrationsOf(w)' \ RegistrationsOf(w) :
            /\ At(w, "get_shared_object_from_self")
            /\ ck = <<Top(w).c, Top(w).key>>
            /\ ck[2] \in DOMAIN constructing[ck[1]]
            /\ constructing'[ck[1]][ck[2]] = register_waiter(constructing[ck[1]][ck[2]], w)
            /\ At(w, "recv")']_vars

\* S needs itself through O: the other thread registered on the record of S,
\* the thread that built S re-entered it, which removed the record while its
\* provider was still running, and the waiter holds the one response, not yet
\* taken, while no record holds its Sender
C38_Witness ==
    /\ scn = "reenter"
    /\ \E w \in Threads :
        /\ At(w, "recv")
        /\ Top(w).key = "S"
        /\ inbox[w] = <<ErrorResponse(CyclicDependency("S"))>>
        /\ RegistrationsOf(w) = {}
        /\ \E t \in Threads \ {w} :
            /\ Active(t)
            /\ stack[t][1].key = "S"
            /\ stack[t][1].pc = "provide"

====
